---- MODULE Spec2Model ----
(***************************************************************************)
(* The in-memory dashboard store of package inmem (src/unnamed/part_000):  *)
(* dashboards kept in a keyed map, each with an ordered list of cells,     *)
(* each cell naming a view kept in a second keyed map.                     *)
(*                                                                         *)
(* Ten specifications share the definitions below.  Spec takes every       *)
(* handler as one atomic step of a single caller.  SpecCells is the life   *)
(* of one dashboard under the five cell handlers.  SpecDash is the         *)
(* dashboards as whole records, with the Find handler.  SpecDelete grows   *)
(* dashboards with cells and deletes them.  SpecName is the name lookup    *)
(* over the stores of the kinds with names.  SpecShared is that lookup     *)
(* with entities of several kinds under one ID.  SpecAuthz turns           *)
(* user-resource mappings into permissions.  SpecStore looks up a map      *)
(* that holds any value.  SpecError builds chains of errors and examines   *)
(* them.  SpecConc runs the cell handlers of two callers as sequences of   *)
(* map and field accesses.                                                 *)
(***************************************************************************)
EXTENDS Integers, Sequences, FiniteSets, TLC

\* ------------------------------------------------------------------ bounds
MaxID == 3           \* IDs the generator hands out: 1..MaxID
MaxCells == 2        \* longest cell list a dashboard is grown to
MaxDashboards == 2   \* dashboards Create is called for while that many are stored
MaxDepth == 3        \* layers of the longest error chain built

\* ------------------------------------------------------- program constants
ENotFound == "not found"
EConflict == "conflict"
EInvalid == "invalid"
NoError == ""

\* platform.ID: 0 is the zero (invalid) ID; ID.Valid() is id # 0.
InvalidID == 0
\* Two valid IDs the generator never hands out, also where a claim runs a
\* handler on a state whose generator stands past MaxID.
ForeignID == MaxID + 4
OtherID == MaxID + 5
Valid(id) == id # InvalidID

Names == {"a", "b"}
XS == {0, 1}                \* a cell's layout field
Times == {0, 1}              \* two readings of the clock
NoName == "nil"

VARIABLES
    dashboardKV,   \* s.dashboardKV: dashboard ID -> stored dashboard
    viewKV,        \* s.viewKV: the IDs of the stored views
    nextID,        \* s.IDGenerator: the next ID it returns
    ret,           \* the last call that changed the service: handler, dashboard, code
    proc,          \* SpecConc: each caller's call in progress, its position and locals
    lastPut,       \* SpecConc: the call whose s.dashboardKV.Store ran last
    lastErr,       \* SpecError: the error built last, with its ErrorCode and ErrorOp
    nameKV,        \* SpecName: resource kind -> (ID -> name of the stored entity)
    authz          \* SpecAuthz: the mapping or permission examined and the outcome

vars == <<dashboardKV, viewKV, nextID, ret, proc, lastPut, lastErr, nameKV, authz>>

\* What the dashboard handlers never touch.
aside == <<lastErr, nameKV, authz>>

\* ----------------------------------------------------------------- maps
Store(kv, key, val) ==
    [k \in DOMAIN kv \cup {key} |-> IF k = key THEN val ELSE kv[k]]

Delete(kv, key) == [k \in DOMAIN kv \ {key} |-> kv[k]]

Cell(id, viewID, x) == [id |-> id, viewID |-> viewID, x |-> x]

Returned(op, dash, code) == [op |-> op, dash |-> dash, code |-> code]

\* loadDashboard / FindDashboardByID: the error code of the lookup.
\* The map holds values of any type; a dashboard is a value with cells
\* (the type assertion of lines 20 and 78).
NotADashboard == [type |-> "other"]

IsDashboard(v) == "cells" \in DOMAIN v

FindDashboardByID(kv, id) ==
    IF id \notin DOMAIN kv THEN ENotFound
    ELSE IF ~IsDashboard(kv[id]) THEN EInvalid
    ELSE NoError

\* PutDashboard: unconditional overwrite under o's ID.
PutDashboard(kv, id, o) == Store(kv, id, o)

\* PutDashboardWithMeta: stamp UpdatedAt, then PutDashboard.
\* A PutDashboardWithMeta that does not read the clock.
PutDashboardWithMetaStale(kv, id, o, t) == PutDashboard(kv, id, o)

PutDashboardWithMeta(kv, id, o, t) ==
    PutDashboard(kv, id, [o EXCEPT !.updatedAt = t])

\* ------------------------------------------------------ collaborators
\* The view store's operations and the patch types live outside the files
\* at hand; they are taken from the specification's sections 4.3, 4.4, 6.

\* s.IDGenerator.ID(): a fresh, valid ID.
GenerateID(next) == next

\* createViewIfNotExists: with opts.UsingView set the named view is reused
\* (and must exist); otherwise a view with a fresh ID is created.
createViewIfNotExists(views, next, usingView) ==
    IF Valid(usingView)
    THEN IF usingView \in views
         THEN [code |-> NoError, viewID |-> usingView, views |-> views, next |-> next]
         ELSE [code |-> ENotFound, viewID |-> InvalidID, views |-> views, next |-> next]
    ELSE [code |-> NoError, viewID |-> GenerateID(next),
          views |-> views \cup {GenerateID(next)}, next |-> next + 1]

\* PutView: create or overwrite the view of that ID.
PutView(views, id) == views \cup {id}

\* DeleteView: the error code, and the views left.
DeleteViewError(views, id) == IF id \in views THEN NoError ELSE ENotFound
DeleteView(views, id) == views \ {id}

\* DashboardUpdate / CellUpdate: a patch is the set of values it assigns
\* (none, or one); Valid() wants at least one attribute.
PatchValid(upd) == upd # {}
ApplyDashboardUpdate(d, upd) ==
    IF upd = {} THEN d ELSE [d EXCEPT !.name = CHOOSE n \in upd : TRUE]
ApplyCellUpdate(c, upd) ==
    IF upd = {} THEN c ELSE [c EXCEPT !.x = CHOOSE x \in upd : TRUE]

\* ------------------------------------------------- cell list helpers
\* The loop of RemoveDashboardCell / UpdateDashboardCell: the first index
\* whose cell has the ID, 0 when there is none (Go's idx == -1).
CellIndex(cells, cellID) ==
    LET hits == {i \in 1..Len(cells) : cells[i].id = cellID}
    IN  IF hits = {} THEN 0 ELSE CHOOSE i \in hits : \A j \in hits : i <= j

\* A removal that drops the head of the list whatever the index.
RemoveHead(cells, idx) == Tail(cells)

\* append(d.Cells[:idx], d.Cells[idx+1:]...)
RemoveAt(cells, idx) == SubSeq(cells, 1, idx - 1) \o SubSeq(cells, idx + 1, Len(cells))

\* ReplaceDashboardCells' lookup ids: cell ID -> attached cell; a later cell
\* of the same ID overwrites an earlier one.
CellsByID(cells) ==
    [id \in {cells[i].id : i \in 1..Len(cells)} |->
        cells[CHOOSE i \in 1..Len(cells) :
                 /\ cells[i].id = id
                 /\ \A j \in 1..Len(cells) : cells[j].id = id => j <= i]]

\* A validation loop that never compares ViewIDs.
RECURSIVE ReplaceErrorAnyView(_, _, _)
ReplaceErrorAnyView(ids, cs, i) ==
    IF i > Len(cs) THEN NoError
    ELSE IF ~Valid(cs[i].id) THEN EInvalid
    ELSE IF cs[i].id \notin DOMAIN ids THEN EConflict
    ELSE ReplaceErrorAnyView(ids, cs, i + 1)

\* A validation loop that never looks the cell ID up among the attached ones.
RECURSIVE ReplaceErrorAnyID(_, _, _)
ReplaceErrorAnyID(ids, cs, i) ==
    IF i > Len(cs) THEN NoError
    ELSE IF ~Valid(cs[i].id) THEN EInvalid
    ELSE IF cs[i].id \in DOMAIN ids /\ ids[cs[i].id].viewID # cs[i].viewID THEN EInvalid
    ELSE ReplaceErrorAnyID(ids, cs, i + 1)

\* ReplaceDashboardCells' validation loop from the i-th proposed cell on:
\* the error code of the first cell it rejects, NoError when it rejects none.
RECURSIVE ReplaceError(_, _, _)
ReplaceError(ids, cs, i) ==
    IF i > Len(cs) THEN NoError
    ELSE IF ~Valid(cs[i].id) THEN EInvalid
    ELSE IF cs[i].id \notin DOMAIN ids THEN EConflict
    ELSE IF ids[cs[i].id].viewID # cs[i].viewID THEN EInvalid
    ELSE ReplaceError(ids, cs, i + 1)

\* ------------------------------------------------------------ handlers
\* A handler maps the service s = [kv, views, next] and its arguments to the
\* service it leaves and the error code it returns.
Service(kv, views, next) == [kv |-> kv, views |-> views, next |-> next]

Result(s, code) == [s |-> s, code |-> code]

\* A CreateDashboard that leaves CreatedAt as the caller handed it over.
CreateDashboardUnstamped(s, d, t1, t2) ==
    Result(Service(PutDashboardWithMeta(s.kv, GenerateID(s.next), d, t2),
                   s.views, s.next + 1),
           NoError)

CreateDashboard(s, d, t1, t2) ==
    LET id == GenerateID(s.next)
        o == [d EXCEPT !.createdAt = t1]
    IN  Result(Service(PutDashboardWithMeta(s.kv, id, o, t2), s.views, s.next + 1),
               NoError)

\* An UpdateDashboard that looks the dashboard up before it validates the
\* patch.
UpdateDashboardFindFirst(s, id, upd, t) ==
    IF FindDashboardByID(s.kv, id) # NoError
    THEN Result(s, FindDashboardByID(s.kv, id))
    ELSE IF ~PatchValid(upd) THEN Result(s, EInvalid)
    ELSE Result([s EXCEPT !.kv = PutDashboardWithMeta(s.kv, id,
                                     ApplyDashboardUpdate(s.kv[id], upd), t)],
                NoError)

UpdateDashboard(s, id, upd, t) ==
    IF ~PatchValid(upd) THEN Result(s, EInvalid)
    ELSE IF FindDashboardByID(s.kv, id) # NoError
    THEN Result(s, FindDashboardByID(s.kv, id))
    ELSE Result([s EXCEPT !.kv = PutDashboardWithMeta(s.kv, id,
                                     ApplyDashboardUpdate(s.kv[id], upd), t)],
                NoError)

\* A DeleteDashboard that keeps the dashboard when its labels cannot be
\* deleted.
DeleteDashboardLabelFirst(s, id, labelError) ==
    IF FindDashboardByID(s.kv, id) # NoError
    THEN Result(s, FindDashboardByID(s.kv, id))
    ELSE IF labelError # NoError THEN Result(s, labelError)
    ELSE Result([s EXCEPT !.kv = Delete(s.kv, id)], NoError)

\* A DeleteDashboard that deletes the views of the dashboard's cells too.
DeleteDashboardCascade(s, id, labelError) ==
    IF FindDashboardByID(s.kv, id) # NoError
    THEN Result(s, FindDashboardByID(s.kv, id))
    ELSE Result(Service(Delete(s.kv, id),
                        s.views \ {s.kv[id].cells[i].viewID : i \in DOMAIN s.kv[id].cells},
                        s.next),
                labelError)

\* labelError is what s.deleteLabel returns.
DeleteDashboard(s, id, labelError) ==
    IF FindDashboardByID(s.kv, id) # NoError
    THEN Result(s, FindDashboardByID(s.kv, id))
    ELSE Result([s EXCEPT !.kv = Delete(s.kv, id)], labelError)

\* An AddDashboardCell that appends and stores before it creates the view.
AddDashboardCellEager(s, id, cell, usingView, t) ==
    IF FindDashboardByID(s.kv, id) # NoError
    THEN Result(s, FindDashboardByID(s.kv, id))
    ELSE LET d == s.kv[id]
             cellID == GenerateID(s.next)
             v == createViewIfNotExists(s.views, s.next + 1, usingView)
         IN  Result(Service(PutDashboardWithMeta(s.kv, id,
                                [d EXCEPT !.cells =
                                    Append(d.cells, Cell(cellID, v.viewID, cell.x))],
                                t),
                            v.views, v.next),
                    v.code)

AddDashboardCell(s, id, cell, usingView, t) ==
    IF FindDashboardByID(s.kv, id) # NoError
    THEN Result(s, FindDashboardByID(s.kv, id))
    ELSE LET d == s.kv[id]
             cellID == GenerateID(s.next)
             v == createViewIfNotExists(s.views, s.next + 1, usingView)
         IN  IF v.code # NoError
             THEN Result([s EXCEPT !.next = v.next], v.code)
             ELSE Result(Service(PutDashboardWithMeta(s.kv, id,
                                     [d EXCEPT !.cells =
                                         Append(d.cells, Cell(cellID, v.viewID, cell.x))],
                                     t),
                                 v.views, v.next),
                         NoError)

PutDashboardCell(s, id, cell) ==
    IF FindDashboardByID(s.kv, id) # NoError
    THEN Result(s, FindDashboardByID(s.kv, id))
    ELSE LET d == s.kv[id]
         IN  Result(Service(PutDashboard(s.kv, id,
                                [d EXCEPT !.cells = Append(d.cells, cell)]),
                            PutView(s.views, cell.viewID), s.next),
                    NoError)

\* A RemoveDashboardCell that detaches every cell with the ID.
RemoveDashboardCellEvery(s, dashboardID, cellID, t) ==
    IF FindDashboardByID(s.kv, dashboardID) # NoError
    THEN Result(s, FindDashboardByID(s.kv, dashboardID))
    ELSE LET d == s.kv[dashboardID]
             idx == CellIndex(d.cells, cellID)
             Other(c) == c.id # cellID
         IN  IF idx = 0 THEN Result(s, ENotFound)
             ELSE IF DeleteViewError(s.views, d.cells[idx].viewID) # NoError
             THEN Result(s, DeleteViewError(s.views, d.cells[idx].viewID))
             ELSE Result(Service(PutDashboardWithMeta(s.kv, dashboardID,
                                     [d EXCEPT !.cells = SelectSeq(d.cells, Other)], t),
                                 DeleteView(s.views, d.cells[idx].viewID), s.next),
                         NoError)

\* A RemoveDashboardCell that detaches the cell before it deletes the view.
RemoveDashboardCellDetachFirst(s, dashboardID, cellID, t) ==
    IF FindDashboardByID(s.kv, dashboardID) # NoError
    THEN Result(s, FindDashboardByID(s.kv, dashboardID))
    ELSE LET d == s.kv[dashboardID]
             idx == CellIndex(d.cells, cellID)
         IN  IF idx = 0 THEN Result(s, ENotFound)
             ELSE Result(Service(PutDashboardWithMeta(s.kv, dashboardID,
                                     [d EXCEPT !.cells = RemoveAt(d.cells, idx)], t),
                                 DeleteView(s.views, d.cells[idx].viewID), s.next),
                         DeleteViewError(s.views, d.cells[idx].viewID))

RemoveDashboardCell(s, dashboardID, cellID, t) ==
    IF FindDashboardByID(s.kv, dashboardID) # NoError
    THEN Result(s, FindDashboardByID(s.kv, dashboardID))
    ELSE LET d == s.kv[dashboardID]
             idx == CellIndex(d.cells, cellID)
         IN  IF idx = 0 THEN Result(s, ENotFound)
             ELSE IF DeleteViewError(s.views, d.cells[idx].viewID) # NoError
             THEN Result(s, DeleteViewError(s.views, d.cells[idx].viewID))
             ELSE Result(Service(PutDashboardWithMeta(s.kv, dashboardID,
                                     [d EXCEPT !.cells = RemoveAt(d.cells, idx)], t),
                                 DeleteView(s.views, d.cells[idx].viewID), s.next),
                         NoError)

\* An UpdateDashboardCell that looks dashboard and cell up before it
\* validates the patch.
UpdateDashboardCellFindFirst(s, dashboardID, cellID, upd, t) ==
    IF FindDashboardByID(s.kv, dashboardID) # NoError
    THEN Result(s, FindDashboardByID(s.kv, dashboardID))
    ELSE LET d == s.kv[dashboardID]
             idx == CellIndex(d.cells, cellID)
         IN  IF idx = 0 THEN Result(s, ENotFound)
             ELSE IF ~PatchValid(upd) THEN Result(s, EInvalid)
             ELSE Result([s EXCEPT !.kv = PutDashboardWithMeta(s.kv, dashboardID,
                              [d EXCEPT !.cells[idx] = ApplyCellUpdate(d.cells[idx], upd)],
                              t)],
                         NoError)

UpdateDashboardCell(s, dashboardID, cellID, upd, t) ==
    IF ~PatchValid(upd) THEN Result(s, EInvalid)
    ELSE IF FindDashboardByID(s.kv, dashboardID) # NoError
    THEN Result(s, FindDashboardByID(s.kv, dashboardID))
    ELSE LET d == s.kv[dashboardID]
             idx == CellIndex(d.cells, cellID)
         IN  IF idx = 0 THEN Result(s, ENotFound)
             ELSE Result([s EXCEPT !.kv = PutDashboardWithMeta(s.kv, dashboardID,
                              [d EXCEPT !.cells[idx] = ApplyCellUpdate(d.cells[idx], upd)],
                              t)],
                         NoError)

\* The cell a successful UpdateDashboardCell returns: d.Cells[idx] after the
\* patch was applied to it (lines 286-293, 302).
UpdatedCell(s, dashboardID, cellID, upd) ==
    LET cells == s.kv[dashboardID].cells
    IN  ApplyCellUpdate(cells[CellIndex(cells, cellID)], upd)

\* A replacement that assigns and stores the list before it validates it.
ReplaceDashboardCellsEager(s, id, cs, t) ==
    IF FindDashboardByID(s.kv, id) # NoError
    THEN Result(s, FindDashboardByID(s.kv, id))
    ELSE LET d == s.kv[id]
         IN  Result([s EXCEPT !.kv = PutDashboardWithMeta(s.kv, id,
                                         [d EXCEPT !.cells = cs], t)],
                    ReplaceError(CellsByID(d.cells), cs, 1))

ReplaceDashboardCells(s, id, cs, t) ==
    IF FindDashboardByID(s.kv, id) # NoError
    THEN Result(s, FindDashboardByID(s.kv, id))
    ELSE LET d == s.kv[id]
             code == ReplaceError(CellsByID(d.cells), cs, 1)
         IN  IF code # NoError THEN Result(s, code)
             ELSE Result([s EXCEPT !.kv = PutDashboardWithMeta(s.kv, id,
                                              [d EXCEPT !.cells = cs], t)],
                         NoError)

\* -------------------------------------------------------------- errors
\* An error value is the chain of its layers, outermost first; the nil
\* error is the empty chain.  A layer is a *platform.Error with its Code and
\* Op ("struct"), a nil *platform.Error held in the error interface
\* ("nilptr") or an error of another type ("opaque"); only a "struct" layer
\* has an Err, the rest of the chain.
EInternal == "internal error"

NilError == << >>

Layer(code, op) == [kind |-> "struct", code |-> code, op |-> op]

OpaqueError == <<[kind |-> "opaque", code |-> "", op |-> ""]>>

NilPointerError == <<[kind |-> "nilptr", code |-> "", op |-> ""]>>

\* &platform.Error{Err: err, Op: op}
Wrap(op, err) == <<Layer("", op)>> \o err

\* An ErrorCode that looks at the outermost layer only.
ErrorCodeShallow(err) ==
    IF err = NilError THEN ""
    ELSE IF Head(err).kind = "opaque" THEN EInternal
    ELSE IF Head(err).kind = "nilptr" THEN ""
    ELSE IF Head(err).code # "" THEN Head(err).code
    ELSE EInternal

\* An ErrorCode that returns the innermost code of the chain.
RECURSIVE ErrorCodeRoot(_)
ErrorCodeRoot(err) ==
    IF err = NilError THEN ""
    ELSE IF Head(err).kind = "opaque" THEN EInternal
    ELSE IF Head(err).kind = "nilptr" THEN ""
    ELSE IF Tail(err) # NilError THEN ErrorCodeRoot(Tail(err))
    ELSE IF Head(err).code # "" THEN Head(err).code
    ELSE EInternal

RECURSIVE ErrorCode(_)
ErrorCode(err) ==
    IF err = NilError THEN ""
    ELSE IF Head(err).kind = "opaque" THEN EInternal
    ELSE IF Head(err).kind = "nilptr" THEN ""
    ELSE IF Head(err).code # "" THEN Head(err).code
    ELSE IF Tail(err) # NilError THEN ErrorCode(Tail(err))
    ELSE EInternal

RECURSIVE ErrorOp(_)
ErrorOp(err) ==
    IF err = NilError THEN ""
    ELSE IF Head(err).kind = "opaque" THEN ""
    ELSE IF Head(err).kind = "nilptr" THEN ""
    ELSE IF Head(err).op # "" THEN Head(err).op
    ELSE IF Tail(err) # NilError THEN ErrorOp(Tail(err))
    ELSE ""

\* The operation labels, OpPrefix + platform.Op...; the constants live
\* outside the files at hand.
OpFindDashboardByID == "inmem/FindDashboardByID"
OpFindDashboards == "inmem/FindDashboards"
OpCreateDashboard == "CreateDashboard"
OpUpdateDashboard == "inmem/UpdateDashboard"
OpDeleteDashboard == "inmem/DeleteDashboard"
OpAddDashboardCell == "inmem/AddDashboardCell"
OpPutDashboardCell == "inmem/PutDashboardCell"
OpRemoveDashboardCell == "inmem/RemoveDashboardCell"
OpUpdateDashboardCell == "inmem/UpdateDashboardCell"
OpReplaceDashboardCells == "inmem/ReplaceDashboardCells"
OpDeleteView == "inmem/DeleteView"
OpFindViewByID == "inmem/FindViewByID"

\* The errors of the collaborators: the patch's Valid(), the lookup of the
\* view UsingView names, and DeleteView, which wraps the failed lookup of
\* the view in its own label.
PatchValidError(upd) == IF PatchValid(upd) THEN NilError ELSE <<Layer(EInvalid, "")>>

createViewIfNotExistsError(views, next, usingView) ==
    IF createViewIfNotExists(views, next, usingView).code = NoError THEN NilError
    ELSE Wrap(OpFindViewByID,
              <<Layer(createViewIfNotExists(views, next, usingView).code, "")>>)

DeleteViewErr(views, id) ==
    IF DeleteViewError(views, id) = NoError THEN NilError
    ELSE Wrap(OpDeleteView,
              Wrap(OpFindViewByID, <<Layer(DeleteViewError(views, id), "")>>))

\* The error each handler returns, as the chain it builds.
loadDashboardError(kv, id) ==
    IF FindDashboardByID(kv, id) = NoError THEN NilError
    ELSE <<Layer(FindDashboardByID(kv, id), "")>>

FindDashboardByIDError(kv, id) ==
    IF loadDashboardError(kv, id) # NilError
    THEN Wrap(OpFindDashboardByID, loadDashboardError(kv, id))
    ELSE NilError

FindDashboardsError(kv, fids) ==
    IF Len(fids) = 1
          /\ FindDashboardByIDError(kv, fids[1]) # NilError
          /\ ErrorCode(FindDashboardByIDError(kv, fids[1])) # ENotFound
    THEN Wrap(OpFindDashboards, FindDashboardByIDError(kv, fids[1]))
    ELSE NilError

\* PutDashboardWithMeta returns nil, so the wrapping of its error in lines
\* 99-104 is never reached.
CreateDashboardError(s, d) == NilError

UpdateDashboardError(s, id, upd) ==
    IF PatchValidError(upd) # NilError THEN Wrap(OpUpdateDashboard, PatchValidError(upd))
    ELSE IF FindDashboardByIDError(s.kv, id) # NilError
    THEN Wrap(OpUpdateDashboard, FindDashboardByIDError(s.kv, id))
    ELSE NilError

\* labelErr is the error s.deleteLabel returns.
DeleteDashboardError(s, id, labelErr) ==
    IF FindDashboardByIDError(s.kv, id) # NilError
    THEN Wrap(OpDeleteDashboard, FindDashboardByIDError(s.kv, id))
    ELSE IF labelErr # NilError THEN Wrap(OpDeleteDashboard, labelErr)
    ELSE NilError

AddDashboardCellError(s, id, usingView) ==
    IF FindDashboardByIDError(s.kv, id) # NilError
    THEN Wrap(OpAddDashboardCell, FindDashboardByIDError(s.kv, id))
    ELSE IF createViewIfNotExistsError(s.views, s.next + 1, usingView) # NilError
    THEN Wrap(OpAddDashboardCell,
              createViewIfNotExistsError(s.views, s.next + 1, usingView))
    ELSE NilError

\* A PutDashboardCell that labels the error of the lookup as the other
\* handlers do.
PutDashboardCellErrorWrapped(s, id) ==
    IF FindDashboardByIDError(s.kv, id) # NilError
    THEN Wrap(OpPutDashboardCell, FindDashboardByIDError(s.kv, id))
    ELSE NilError

\* Lines 205-208: the error of the lookup is returned as it is.
PutDashboardCellError(s, id) == FindDashboardByIDError(s.kv, id)

\* Lines 245-247: the error of DeleteView is returned as it is.
RemoveDashboardCellError(s, dashboardID, cellID) ==
    IF FindDashboardByIDError(s.kv, dashboardID) # NilError
    THEN Wrap(OpRemoveDashboardCell, FindDashboardByIDError(s.kv, dashboardID))
    ELSE LET cells == s.kv[dashboardID].cells
             idx == CellIndex(cells, cellID)
         IN  IF idx = 0 THEN <<Layer(ENotFound, OpRemoveDashboardCell)>>
             ELSE DeleteViewErr(s.views, cells[idx].viewID)

UpdateDashboardCellError(s, dashboardID, cellID, upd) ==
    IF PatchValidError(upd) # NilError
    THEN Wrap(OpUpdateDashboardCell, PatchValidError(upd))
    ELSE IF FindDashboardByIDError(s.kv, dashboardID) # NilError
    THEN Wrap(OpUpdateDashboardCell, FindDashboardByIDError(s.kv, dashboardID))
    ELSE IF CellIndex(s.kv[dashboardID].cells, cellID) = 0
    THEN <<Layer(ENotFound, OpUpdateDashboardCell)>>
    ELSE NilError

ReplaceDashboardCellsError(s, id, cs) ==
    IF FindDashboardByIDError(s.kv, id) # NilError
    THEN Wrap(OpReplaceDashboardCells, FindDashboardByIDError(s.kv, id))
    ELSE IF ReplaceError(CellsByID(s.kv[id].cells), cs, 1) # NoError
    THEN <<Layer(ReplaceError(CellsByID(s.kv[id].cells), cs, 1), OpReplaceDashboardCells)>>
    ELSE NilError

\* An error with what ErrorCode and ErrorOp make of it.
Examined(err) == [err |-> err, code |-> ErrorCode(err), op |-> ErrorOp(err)]

\* ------------------------------------------------------------- callers
\* What a caller may pass.  The IDs a caller knows are the ones in use, the
\* zero ID and ForeignID; never one the generator has yet to hand out
\* (section 6: generated IDs are unique).
BoundedSeq(S, n) == UNION {[1..k -> S] : k \in 0..n}

CellsOf(cells) == {cells[i] : i \in 1..Len(cells)}

AttachedCells(kv) == UNION {CellsOf(kv[k].cells) : k \in DOMAIN kv}

DashboardIDs == DOMAIN dashboardKV \cup {ForeignID}

KnownCellIDs == {c.id : c \in AttachedCells(dashboardKV)} \cup {InvalidID, ForeignID}

CellIDsAttached == {c.id : c \in AttachedCells(dashboardKV)}

KnownViewIDs == {c.viewID : c \in AttachedCells(dashboardKV)} \cup viewKV \cup {ForeignID}

CallerCells(xs) ==
    {Cell(i, v, x) : i \in KnownCellIDs \ {InvalidID}, v \in KnownViewIDs, x \in xs}

\* A dashboard object handed to Create or Put: no cell, or one.
CallerDashboards(names, xs, created, updated) ==
    {[name |-> n, cells |-> cs, createdAt |-> t1, updatedAt |-> t2] :
        n \in names, cs \in BoundedSeq(CallerCells(xs), 1),
        t1 \in created, t2 \in updated}

\* The cells proposed to ReplaceDashboardCells for dashboard id: an attached
\* cell as it is, with its layout edited, or bound to another view; a cell
\* with the zero ID; a cell that is not attached.
ProposedCells(id, xs) ==
    IF id \notin DOMAIN dashboardKV THEN {Cell(OtherID, OtherID, 0)}
    ELSE LET at == CellsOf(dashboardKV[id].cells)
         IN  {Cell(c.id, c.viewID, x) : c \in at, x \in xs}
             \cup {Cell(c.id, OtherID, c.x) : c \in at}
             \cup {Cell(InvalidID, OtherID, 0), Cell(OtherID, OtherID, 0)}

Patches(S) == {{}} \cup {{v} : v \in S}

\* The callers of SpecConc, one goroutine each.
Procs == {"p1", "p2"}

NoCell == Cell(InvalidID, InvalidID, 0)

\* A caller between calls.
Blank ==
    [pc |-> "idle", op |-> "", dash |-> InvalidID, cell |-> NoCell,
     cellID |-> InvalidID, cs |-> <<>>, upd |-> {}, idx |-> 0, cells |-> <<>>,
     code |-> NoError]

Called(op, id) == [Blank EXCEPT !.op = op, !.dash = id]

\* ------------------------------------------------------- specification
\* The other stores of the service start empty; nothing is examined yet.
NamedKinds == {"buckets", "orgs", "telegrafs", "users"}

NoEntities == [k \in NamedKinds |-> [i \in {} |-> ""]]

NoAuthz == [op |-> "", userType |-> "", action |-> "", resource |-> "",
            id |-> InvalidID, hasID |-> FALSE, ps |-> <<>>, err |-> ""]

Init ==
    /\ dashboardKV = [k \in {} |-> 0]
    /\ viewKV = {}
    /\ nextID = 1
    /\ ret = Returned("New", InvalidID, NoError)
    /\ proc = [p \in Procs |-> Blank]
    /\ lastPut = Called("", InvalidID)
    /\ lastErr = Examined(NilError)
    /\ nameKV = NoEntities
    /\ authz = NoAuthz

Svc == Service(dashboardKV, viewKV, nextID)

\* A call of handler op on dashboard id returns r.  A call that leaves the
\* service as it found it leaves no trace.
Return(op, id, r) ==
    /\ dashboardKV' = r.s.kv
    /\ viewKV' = r.s.views
    /\ nextID' = r.s.next
    /\ ret' = IF r.s = Svc THEN ret ELSE Returned(op, id, r.code)
    /\ UNCHANGED <<proc, lastPut, aside>>

CellsAt(id) == IF id \in DOMAIN dashboardKV THEN dashboardKV[id].cells ELSE <<>>

\* The calls, over the names ns, layouts xs and CreatedAt values cs a caller
\* passes and the readings ts of the clock.  The generator's IDs and the
\* cell lists are bounded here.
CreateCall(ns, xs, cs, ts) ==
    \E d \in CallerDashboards(ns, xs, {0}, {0}), t1 \in cs, t2 \in ts :
       /\ nextID <= MaxID
       /\ Cardinality(DOMAIN dashboardKV) < MaxDashboards
       /\ Return("CreateDashboard", nextID, CreateDashboard(Svc, d, t1, t2))

PutCall(ns, xs, cs, ts) ==
    \E id \in DOMAIN dashboardKV, o \in CallerDashboards(ns, xs, cs, ts) :
       Return("PutDashboard", id, Result([Svc EXCEPT !.kv = PutDashboard(@, id, o)], NoError))

PutWithMetaCall(ns, xs, cs, ts) ==
    \E id \in DOMAIN dashboardKV, o \in CallerDashboards(ns, xs, cs, {0}), t \in ts :
       Return("PutDashboardWithMeta", id,
              Result([Svc EXCEPT !.kv = PutDashboardWithMeta(@, id, o, t)], NoError))

UpdateCall(ns, ts) ==
    \E id \in DashboardIDs, upd \in Patches(ns), t \in ts :
       Return("UpdateDashboard", id, UpdateDashboard(Svc, id, upd, t))

DeleteCall ==
    \E id \in DashboardIDs, labelError \in {NoError, "internal error"} :
       Return("DeleteDashboard", id, DeleteDashboard(Svc, id, labelError))

AddCellCall(xs, ts) ==
    \E id \in DashboardIDs, x \in xs, usingView \in {InvalidID} \cup KnownViewIDs,
       t \in ts :
       /\ nextID + 1 <= MaxID
       /\ Len(CellsAt(id)) < MaxCells
       /\ Return("AddDashboardCell", id,
                 AddDashboardCell(Svc, id, Cell(InvalidID, InvalidID, x), usingView, t))

PutCellCall(xs) ==
    \E id \in DashboardIDs, cell \in CallerCells(xs) :
       /\ Len(CellsAt(id)) < MaxCells
       /\ Return("PutDashboardCell", id, PutDashboardCell(Svc, id, cell))

RemoveCellCall(ts) ==
    \E id \in DashboardIDs, cellID \in KnownCellIDs, t \in ts :
       Return("RemoveDashboardCell", id, RemoveDashboardCell(Svc, id, cellID, t))

UpdateCellCall(xs, ts) ==
    \E id \in DashboardIDs, cellID \in KnownCellIDs, upd \in Patches(xs), t \in ts :
       Return("UpdateDashboardCell", id, UpdateDashboardCell(Svc, id, cellID, upd, t))

ReplaceCellsCall(xs, ts) ==
    \E id \in DashboardIDs :
       \E cs \in BoundedSeq(ProposedCells(id, xs), MaxCells), t \in ts :
          Return("ReplaceDashboardCells", id, ReplaceDashboardCells(Svc, id, cs, t))

\* Spec: every dashboard operation, one caller.  Names, layouts and CreatedAt
\* are held to one value each; a dashboard is created at time 0 and the
\* clock reads 1 from then on.
Next ==
    \/ CreateCall({"a"}, {0}, {0}, {0})
    \/ PutCall({"a"}, {0}, {0}, {1})
    \/ PutWithMetaCall({"a"}, {0}, {0}, {1})
    \/ UpdateCall({"a"}, {1})
    \/ DeleteCall
    \/ AddCellCall({0}, {1})
    \/ PutCellCall({0})
    \/ RemoveCellCall({1})
    \/ UpdateCellCall({0}, {1})
    \/ ReplaceCellsCall({0}, {1})

Spec == Init /\ [][Next]_vars

\* SpecCells: the life of one dashboard, created empty and never deleted,
\* under the five cell operations.
NextCells ==
    \/ /\ DOMAIN dashboardKV = {}
       /\ Return("CreateDashboard", nextID,
                 CreateDashboard(Svc, [name |-> "a", cells |-> <<>>,
                                       createdAt |-> 0, updatedAt |-> 0], 0, 0))
    \/ AddCellCall({0}, {1})
    \/ PutCellCall({0})
    \/ RemoveCellCall({1})
    \/ UpdateCellCall({0}, {1})
    \/ ReplaceCellsCall({0}, {1})

SpecCells == Init /\ [][NextCells]_vars

\* ------------------------------------------------------------ SpecDash
\* loadDashboard, line 27: the object a successful lookup returns.
loadDashboard(kv, id) == kv[id]

\* platform.SortDashboards lives outside the files at hand: the fields a
\* caller may order by and the key each gives a stored dashboard.
SortFields == {"ID", "Name", "CreatedAt", "UpdatedAt"}

NameRank(n) == IF n = "a" THEN 1 ELSE IF n = "b" THEN 2 ELSE 0

SortKey(kv, by, id) ==
    IF by = "Name" THEN NameRank(kv[id].name)
    ELSE IF by = "CreatedAt" THEN kv[id].createdAt
    ELSE IF by = "UpdatedAt" THEN kv[id].updatedAt
    ELSE id

\* What SortDashboards may leave of the dashboards ids, which Range hands
\* over in no fixed order: every arrangement that ascends in the key.
SortDashboards(kv, by, ids) ==
    {ds \in [1..Cardinality(ids) -> ids] :
        /\ \A i \in DOMAIN ds, j \in DOMAIN ds : i # j => ds[i] # ds[j]
        /\ \A i \in DOMAIN ds, j \in DOMAIN ds :
              i < j => SortKey(kv, by, ds[i]) <= SortKey(kv, by, ds[j])}

\* The dashboards Range may hand over before the scan ends (lines 77-87):
\* all of them, or, when the map holds a value that is no dashboard, those
\* it came to before that value, which stops it.
Ranged(kv) ==
    IF \A k \in DOMAIN kv : IsDashboard(kv[k]) THEN {DOMAIN kv}
    ELSE SUBSET {k \in DOMAIN kv : IsDashboard(kv[k])}

\* A scan that keeps every dashboard whatever the filter.
filterDashboardAll(fids, id) == TRUE

\* filterDashboardFn: does the dashboard stored under id pass filter.IDs?
filterDashboardFn(fids, id) ==
    IF Len(fids) > 0 THEN id \in {fids[i] : i \in 1..Len(fids)} ELSE TRUE

Found(ds, code) == [ds |-> ds, n |-> Len(ds), code |-> code]

\* A lookup of one ID that hands FindDashboardByID's error on.
FindDashboardsStrict(kv, fids, by) ==
    IF Len(fids) = 1
    THEN {Found(IF FindDashboardByID(kv, fids[1]) = NoError THEN <<fids[1]>> ELSE <<>>,
                FindDashboardByID(kv, fids[1]))}
    ELSE {Found(ds, NoError) :
             ds \in UNION {SortDashboards(kv, by, {k \in V : filterDashboardFn(fids, k)}) :
                              V \in Ranged(kv)}}

\* FindDashboards: the results a call may return, each the IDs of the
\* dashboards found, their count and the error code.  The handlers store
\* dashboards only, so that under them the lookup of a single ID fails
\* with NotFound or not at all.
FindDashboards(kv, fids, by) ==
    IF Len(fids) = 1
    THEN IF FindDashboardByID(kv, fids[1]) = NoError
         THEN {Found(<<fids[1]>>, NoError)}
         ELSE IF FindDashboardByID(kv, fids[1]) # ENotFound
         THEN {[ds |-> <<>>, n |-> 0, code |-> FindDashboardByID(kv, fids[1])]}
         ELSE {Found(<<>>, NoError)}
    ELSE {Found(ds, NoError) :
             ds \in UNION {SortDashboards(kv, by, {k \in V : filterDashboardFn(fids, k)}) :
                              V \in Ranged(kv)}}

\* The filters a caller passes: up to two IDs, stored or not, repeats allowed.
Filters == BoundedSeq(DashboardIDs, 2)

\* A Find call reads and leaves everything as it is.
FindCall(bys) ==
    \E fids \in Filters, by \in bys :
       \E r \in FindDashboards(dashboardKV, fids, by) :
          Return("FindDashboards", InvalidID, Result(Svc, r.code))

\* SpecDash: the dashboards as whole records, one caller; no cell handler.
\* A dashboard is created and put under the name "a" at time 0; Update
\* renames it, at time 1.
NextDash ==
    \/ CreateCall({"a"}, {0}, {0}, {0})
    \/ PutCall({"a"}, {0}, {0}, {0})
    \/ PutWithMetaCall({"a"}, {0}, {0}, {0})
    \/ UpdateCall(Names, {1})
    \/ DeleteCall
    \/ FindCall({"Name"})

SpecDash == Init /\ [][NextDash]_vars

\* SpecDelete: dashboards are created, given cells, which brings views into
\* the view store, and deleted; no cell is detached, so a view without a
\* cell has lost its dashboard to DeleteDashboard.
NextDelete ==
    \/ CreateCall({"a"}, {0}, {0}, {0})
    \/ AddCellCall({0}, {1})
    \/ PutCellCall({0})
    \/ DeleteCall

SpecDelete == Init /\ [][NextDelete]_vars

\* ------------------------------------------------------------ SpecName
\* The name lookup of the service (its code lives outside the files at
\* hand; section 4.2 of the specification and TestService_Name): the kinds
\* it knows, those among them whose entities have no name, and Name.
NamelessKinds == {"authorizations", "tasks", "sources"}

RecognizedKinds == NamelessKinds \cup NamedKinds \cup {"dashboards"}

Kinds == RecognizedKinds \cup {"invalid"}

Named(name, code) == [name |-> name, code |-> code]

\* The store of a kind with names: ID -> name of the entity.
KindStore(kv, names, kind) ==
    IF kind = "dashboards" THEN [i \in DOMAIN kv |-> kv[i].name] ELSE names[kind]

\* A Name that looks the entity up before it looks at the kind.
NameLookupFirst(kv, names, kind, id) ==
    IF ~Valid(id) THEN Named("", EInvalid)
    ELSE IF kind \in NamedKinds \cup {"dashboards"}
    THEN IF id \notin DOMAIN KindStore(kv, names, kind) THEN Named("", ENotFound)
         ELSE Named(KindStore(kv, names, kind)[id], NoError)
    ELSE IF \A k \in NamedKinds : id \notin DOMAIN names[k] THEN Named("", ENotFound)
    ELSE IF kind \notin RecognizedKinds THEN Named("", EInvalid)
    ELSE Named("", NoError)

\* A Name that takes every kind it does not look up for a nameless one.
NameAnyKind(kv, names, kind, id) ==
    IF ~Valid(id) THEN Named("", EInvalid)
    ELSE IF kind \notin NamedKinds \cup {"dashboards"} THEN Named("", NoError)
    ELSE IF id \notin DOMAIN KindStore(kv, names, kind) THEN Named("", ENotFound)
    ELSE Named(KindStore(kv, names, kind)[id], NoError)

\* A Name that, finding no entity of the kind under the ID, takes the
\* entity another kind's store holds under it.
NameAnyStore(kv, names, kind, id) ==
    IF ~Valid(id) \/ kind \notin RecognizedKinds THEN Named("", EInvalid)
    ELSE IF kind \in NamelessKinds THEN Named("", NoError)
    ELSE IF id \in DOMAIN KindStore(kv, names, kind)
    THEN Named(KindStore(kv, names, kind)[id], NoError)
    ELSE IF \E k \in NamedKinds : id \in DOMAIN names[k]
    THEN Named(names[CHOOSE k \in NamedKinds : id \in DOMAIN names[k]][id], NoError)
    ELSE Named("", ENotFound)

\* A Name that returns the name of the first entity of the kind.
NameOfFirst(kv, names, kind, id) ==
    IF ~Valid(id) \/ kind \notin RecognizedKinds THEN Named("", EInvalid)
    ELSE IF kind \in NamelessKinds THEN Named("", NoError)
    ELSE IF id \notin DOMAIN KindStore(kv, names, kind) THEN Named("", ENotFound)
    ELSE Named(KindStore(kv, names, kind)[
                  CHOOSE i \in DOMAIN KindStore(kv, names, kind) :
                     \A j \in DOMAIN KindStore(kv, names, kind) : i <= j],
               NoError)

Name(kv, names, kind, id) ==
    IF ~Valid(id) \/ kind \notin RecognizedKinds THEN Named("", EInvalid)
    ELSE IF kind \in NamelessKinds THEN Named("", NoError)
    ELSE IF id \notin DOMAIN KindStore(kv, names, kind) THEN Named("", ENotFound)
    ELSE Named(KindStore(kv, names, kind)[id], NoError)

\* CreateBucket, CreateOrganization, CreateTelegrafConfig, CreateUser: the
\* entity is stored under the generator's next ID.
CreateEntity == \E kind \in NamedKinds, n \in Names :
    /\ nextID <= MaxID
    /\ nameKV' = [nameKV EXCEPT ![kind] = Store(@, GenerateID(nextID), n)]
    /\ nextID' = nextID + 1
    /\ UNCHANGED <<dashboardKV, viewKV, ret, proc, lastPut, lastErr, authz>>

\* A Name call reads and leaves everything as it is.
NameCall == \E kind \in Kinds, id \in 0..MaxID :
    Return("Name", id, Result(Svc, Name(dashboardKV, nameKV, kind, id).code))

\* SpecName: entities of the kinds with names are created, dashboards,
\* without cells, among them; dashboards are renamed and deleted.
NextName ==
    \/ CreateEntity
    \/ /\ nextID <= MaxID
       /\ Return("CreateDashboard", nextID,
                 CreateDashboard(Svc, [name |-> "a", cells |-> <<>>,
                                       createdAt |-> 0, updatedAt |-> 0], 0, 0))
    \/ UpdateCall(Names, {1})
    \/ DeleteCall
    \/ NameCall

SpecName == Init /\ [][NextName]_vars

\* ---------------------------------------------------------- SpecShared
\* The service under a generator that hands out the same ID again and
\* again (mock.NewIDGenerator in TestService_Name): entities of several
\* kinds come to sit under one ID, each in the store of its kind.
MockIDs == {1, 2}

CreateWithMock == \E kind \in NamedKinds \cup {"dashboards"}, n \in Names,
                     id \in MockIDs :
    /\ IF kind = "dashboards"
       THEN /\ dashboardKV' =
                  CreateDashboard(Service(dashboardKV, viewKV, id),
                                  [name |-> n, cells |-> <<>>,
                                   createdAt |-> 0, updatedAt |-> 0], 0, 0).s.kv
            /\ nameKV' = nameKV
       ELSE /\ nameKV' = [nameKV EXCEPT ![kind] = Store(@, GenerateID(id), n)]
            /\ dashboardKV' = dashboardKV
    /\ UNCHANGED <<viewKV, nextID, ret, proc, lastPut, lastErr, authz>>

NextShared == CreateWithMock \/ NameCall

SpecShared == Init /\ [][NextShared]_vars

\* ----------------------------------------------------------- SpecAuthz
\* User-resource mappings and the permissions they turn into
\* (user_resource_mapping.go).  Permission, its Valid and
\* NewPermissionAtID are outside the files at hand: they follow
\* TestPermission_Valid, TestPermissionAllResources_Valid and
\* TestPermissionAllActions.
Owner == "owner"
Member == "member"
ErrInvalidUserType == "unknown user type"

ReadAction == "read"
WriteAction == "write"
Actions == {ReadAction, WriteAction}

\* The user types, actions and resource kinds a caller passes: the known
\* ones, the zero value and one that is none of them.
UserTypes == {Owner, Member, "", "admin"}
ActionsGiven == Actions \cup {"", "delete"}
ResourcesGiven == Kinds \cup {""}

\* UserType.Valid.
UserTypeValid(ut) ==
    IF ut = Owner THEN NoError
    ELSE IF ut = Member THEN NoError
    ELSE ErrInvalidUserType

\* A permission; hasID is FALSE for the nil ID pointer.
Permission(action, resource, id, hasID) ==
    [action |-> action, resource |-> resource, id |-> id, hasID |-> hasID]

\* A Permission.Valid that never looks at the ID.
PermissionValidNoID(p) ==
    IF p.resource \notin RecognizedKinds THEN EInvalid
    ELSE IF p.action \notin Actions THEN EInvalid
    ELSE NoError

\* Permission.Valid: the resource, the action, then the ID when there is one.
PermissionValid(p) ==
    IF p.resource \notin RecognizedKinds THEN EInvalid
    ELSE IF p.action \notin Actions THEN EInvalid
    ELSE IF p.hasID /\ ~Valid(p.id) THEN EInvalid
    ELSE NoError

\* NewPermissionAtID: the permission of the action on the resource at the
\* ID, and what Valid says of it.
NewPermissionAtID(id, a, r) ==
    [p |-> Permission(a, r, id, TRUE),
     err |-> PermissionValid(Permission(a, r, id, TRUE))]

Perms(ps, err) == [ps |-> ps, err |-> err]

ownerActions == <<WriteAction, ReadAction>>
memberActions == <<ReadAction>>

\* The loop of ownerPerms and memberPerms: a permission per action, in
\* order; the first one that fails ends the loop with (nil, err).
permsOf(m, actions) ==
    LET built == [i \in DOMAIN actions |->
                     NewPermissionAtID(m.resourceID, actions[i], m.resource)]
        failed == {i \in DOMAIN actions : built[i].err # NoError}
    IN
    IF failed # {}
    THEN Perms(<<>>, built[CHOOSE i \in failed : \A j \in failed : i <= j].err)
    ELSE Perms([i \in DOMAIN actions |-> built[i].p], NoError)

ownerPerms(m) == permsOf(m, ownerActions)
memberPerms(m) == permsOf(m, memberActions)

\* A ToPermissions that takes every user type but Owner for a Member.
ToPermissionsMemberDefault(m) ==
    IF m.userType = Owner THEN ownerPerms(m) ELSE memberPerms(m)

ToPermissions(m) ==
    IF m.userType = Owner THEN ownerPerms(m)
    ELSE IF m.userType = Member THEN memberPerms(m)
    ELSE Perms(<<>>, ErrInvalidUserType)

Mapping(userType, resource, resourceID) ==
    [userType |-> userType, resource |-> resource, resourceID |-> resourceID]

ToPermissionsCall ==
    \E ut \in UserTypes, r \in ResourcesGiven, id \in 0..MaxID :
       /\ authz' = [op |-> "ToPermissions", userType |-> ut, action |-> "",
                    resource |-> r, id |-> id, hasID |-> TRUE,
                    ps |-> ToPermissions(Mapping(ut, r, id)).ps,
                    err |-> ToPermissions(Mapping(ut, r, id)).err]
       /\ UNCHANGED <<dashboardKV, viewKV, nextID, ret, proc, lastPut,
                      lastErr, nameKV>>

ValidCall ==
    \E a \in ActionsGiven, r \in ResourcesGiven, id \in 0..MaxID,
       hasID \in BOOLEAN :
       /\ hasID \/ id = InvalidID
       /\ authz' = [op |-> "Valid", userType |-> "", action |-> a,
                    resource |-> r, id |-> id, hasID |-> hasID,
                    ps |-> <<>>,
                    err |-> PermissionValid(Permission(a, r, id, hasID))]
       /\ UNCHANGED <<dashboardKV, viewKV, nextID, ret, proc, lastPut,
                      lastErr, nameKV>>

NextAuthz == ToPermissionsCall \/ ValidCall

SpecAuthz == Init /\ [][NextAuthz]_vars

\* ----------------------------------------------------------- SpecStore
\* The dashboard map as the lookups see it: a sync.Map, which holds values
\* of any type under any key.  Dashboards without cells and a value that
\* is no dashboard are stored, and single IDs are looked up.
StoredValues ==
    {[name |-> n, cells |-> <<>>, createdAt |-> 0, updatedAt |-> 0] : n \in Names}
       \cup {NotADashboard}

StoreValue == \E id \in 1..MaxID, v \in StoredValues :
    /\ dashboardKV' = Store(dashboardKV, id, v)
    /\ ret' = Returned("Store", id, NoError)
    /\ UNCHANGED <<viewKV, nextID, proc, lastPut, aside>>

FindOne == \E id \in 1..MaxID : \E r \in FindDashboards(dashboardKV, <<id>>, "ID") :
    /\ ret' = Returned("FindDashboards", id, r.code)
    /\ UNCHANGED <<dashboardKV, viewKV, nextID, proc, lastPut, aside>>

NextStore == StoreValue \/ FindOne

SpecStore == Init /\ [][NextStore]_vars

\* ----------------------------------------------------------- SpecError
\* Error values are built as the handlers build them: a root error, which
\* is nil, an error of another type, a nil *platform.Error or a
\* platform.Error without Err, and platform.Errors wrapped around it, each
\* with or without a Code and an Op.
Codes == {"", ENotFound, EInvalid}

Ops == {"", OpFindDashboardByID}

RootErrors ==
    {NilError, OpaqueError, NilPointerError}
       \cup {<<Layer(c, o)>> : c \in Codes, o \in Ops}

NewError == \E err \in RootErrors :
    /\ lastErr' = Examined(err)
    /\ UNCHANGED <<dashboardKV, viewKV, nextID, ret, proc, lastPut, nameKV, authz>>

\* &platform.Error{Code: c, Op: o, Err: err}
WrapError == \E c \in Codes, o \in Ops :
    /\ lastErr.err # NilError
    /\ Len(lastErr.err) < MaxDepth
    /\ lastErr' = Examined(<<Layer(c, o)>> \o lastErr.err)
    /\ UNCHANGED <<dashboardKV, viewKV, nextID, ret, proc, lastPut, nameKV, authz>>

NextError == NewError \/ WrapError

SpecError == Init /\ [][NextError]_vars

\* ------------------------------------------------------------ SpecConc
\* A single caller creates a dashboard and adds cells; then two callers run
\* one cell handler each, one access at a time.  The map keeps a
\* pointer to the dashboard object and FindDashboardByID returns that
\* pointer (line 27), so every caller that loaded dashboard id works on the
\* one object dashboardKV[id]: an assignment to d.Cells or d.Meta is seen by
\* all at once, and PutDashboard stores the pointer the map already holds.
\* A slice is taken as the sequence of its elements, capacity = length.  A
\* step is named after the source line it runs.  The clock reads 1.

\* The cell PutDashboardCell is handed by caller p: each caller brings its own.
OwnCell(p) == IF p = "p1" THEN Cell(ForeignID, ForeignID, 0) ELSE Cell(OtherID, OtherID, 0)

\* The lists ReplaceDashboardCells is handed: attached cells and one cell
\* that is not attached, no ID twice.
ConcProposals(id) ==
    {cs \in BoundedSeq(CellsOf(CellsAt(id)) \cup {Cell(OtherID, OtherID, 0)}, 2) :
        \A i \in 1..Len(cs), j \in 1..Len(cs) : i # j => cs[i].id # cs[j].id}

\* The caller's record after the FindDashboardByID a handler begins with.
Loaded(op, id, next) ==
    IF FindDashboardByID(dashboardKV, id) # NoError
    THEN [Blank EXCEPT !.pc = "done"]
    ELSE [Called(op, id) EXCEPT !.pc = next]

\* The caller's record once its call has returned.
Returns(p, code) == [Blank EXCEPT !.pc = "done"]

\* A runtime panic (index out of range) ends the caller.
Panics(p) == [proc[p] EXCEPT !.pc = "panic"]

Step(p, r) == proc' = [proc EXCEPT ![p] = r]

Goes(p, next) == [proc[p] EXCEPT !.pc = next]

\* d.Cells of the dashboard caller p loaded, as it is now.
Cells(p) == dashboardKV[proc[p].dash].cells

SetCells(p, cells) == dashboardKV' = [dashboardKV EXCEPT ![proc[p].dash].cells = cells]

\* No call is in progress.
AllReturned == \A p \in Procs : proc[p].pc \in {"idle", "done"}

NoneStarted == \A p \in Procs : proc[p].pc = "idle"

\* The dashboard is created before the callers start.
ConcCreate ==
    /\ NoneStarted
    /\ DOMAIN dashboardKV = {}
    /\ Return("CreateDashboard", nextID,
              CreateDashboard(Svc, [name |-> "a", cells |-> <<>>,
                                    createdAt |-> 0, updatedAt |-> 0], 0, 0))

\* Cells are added, each with a view of its own, before the callers start.
ConcAddCell ==
    /\ NoneStarted
    /\ nextID + 1 <= MaxID
    /\ \E id \in DOMAIN dashboardKV :
          /\ Len(CellsAt(id)) < MaxCells
          /\ Return("AddDashboardCell", id,
                    AddDashboardCell(Svc, id, NoCell, InvalidID, 1))

\* AddDashboardCell, lines 178, 185, 186, 193.
Add178(p) ==
    /\ proc[p].pc = "idle"
    /\ nextID <= MaxID
    /\ \E id \in DashboardIDs :
          /\ Len(CellsAt(id)) < MaxCells
          /\ Step(p, Loaded("AddDashboardCell", id, "add185"))
    /\ UNCHANGED <<dashboardKV, viewKV, nextID, ret, lastPut, aside>>

Add185(p) ==
    /\ proc[p].pc = "add185"
    /\ nextID' = nextID + 1
    /\ Step(p, [proc[p] EXCEPT !.pc = "add186",
                               !.cell = Cell(GenerateID(nextID), InvalidID, 0)])
    /\ UNCHANGED <<dashboardKV, viewKV, ret, lastPut, aside>>

Add186(p) ==
    /\ proc[p].pc = "add186"
    /\ LET v == createViewIfNotExists(viewKV, nextID, InvalidID)
       IN  /\ viewKV' = v.views
           /\ nextID' = v.next
           /\ Step(p, IF v.code # NoError THEN Returns(p, v.code)
                      ELSE [proc[p] EXCEPT !.pc = "add193r", !.cell.viewID = v.viewID])
    /\ UNCHANGED <<dashboardKV, ret, lastPut, aside>>

Add193r(p) ==
    /\ proc[p].pc = "add193r"
    /\ Step(p, [proc[p] EXCEPT !.pc = "add193w", !.cells = Cells(p)])
    /\ UNCHANGED <<dashboardKV, viewKV, nextID, ret, lastPut, aside>>

Add193w(p) ==
    /\ proc[p].pc = "add193w"
    /\ SetCells(p, Append(proc[p].cells, proc[p].cell))
    /\ Step(p, Goes(p, "meta116"))
    /\ UNCHANGED <<viewKV, nextID, ret, lastPut, aside>>

\* PutDashboardCell, lines 205, 211, 215.
Put205(p) ==
    /\ proc[p].pc = "idle"
    /\ \E id \in DashboardIDs :
          /\ Len(CellsAt(id)) < MaxCells
          /\ OwnCell(p).id \notin CellIDsAttached
          /\ Step(p, [Loaded("PutDashboardCell", id, "put211") EXCEPT !.cell = OwnCell(p)])
    /\ UNCHANGED <<dashboardKV, viewKV, nextID, ret, lastPut, aside>>

Put211(p) ==
    /\ proc[p].pc = "put211"
    /\ viewKV' = PutView(viewKV, proc[p].cell.viewID)
    /\ Step(p, Goes(p, "put215r"))
    /\ UNCHANGED <<dashboardKV, nextID, ret, lastPut, aside>>

Put215r(p) ==
    /\ proc[p].pc = "put215r"
    /\ Step(p, [proc[p] EXCEPT !.pc = "put215w", !.cells = Cells(p)])
    /\ UNCHANGED <<dashboardKV, viewKV, nextID, ret, lastPut, aside>>

Put215w(p) ==
    /\ proc[p].pc = "put215w"
    /\ SetCells(p, Append(proc[p].cells, proc[p].cell))
    /\ Step(p, Goes(p, "store110"))
    /\ UNCHANGED <<viewKV, nextID, ret, lastPut, aside>>

\* RemoveDashboardCell, lines 222, 231-243, 245, 249.
Rm222(p) ==
    /\ proc[p].pc = "idle"
    /\ \E id \in DashboardIDs, cellID \in CellIDsAttached \cup {OtherID} :
          Step(p, [Loaded("RemoveDashboardCell", id, "rm231") EXCEPT !.cellID = cellID])
    /\ UNCHANGED <<dashboardKV, viewKV, nextID, ret, lastPut, aside>>

Rm231(p) ==
    /\ proc[p].pc = "rm231"
    /\ LET idx == CellIndex(Cells(p), proc[p].cellID)
       IN  Step(p, IF idx = 0 THEN Returns(p, ENotFound)
                   ELSE [proc[p] EXCEPT !.pc = "rm245r", !.idx = idx])
    /\ UNCHANGED <<dashboardKV, viewKV, nextID, ret, lastPut, aside>>

\* d.Cells[idx].ViewID
Rm245r(p) ==
    /\ proc[p].pc = "rm245r"
    /\ Step(p, IF proc[p].idx > Len(Cells(p)) THEN Panics(p)
               ELSE [proc[p] EXCEPT !.pc = "rm245d", !.cell = Cells(p)[proc[p].idx]])
    /\ UNCHANGED <<dashboardKV, viewKV, nextID, ret, lastPut, aside>>

\* s.DeleteView
Rm245d(p) ==
    /\ proc[p].pc = "rm245d"
    /\ LET view == proc[p].cell.viewID
       IN  IF DeleteViewError(viewKV, view) # NoError
           THEN /\ Step(p, Returns(p, DeleteViewError(viewKV, view)))
                /\ UNCHANGED viewKV
           ELSE /\ Step(p, Goes(p, "rm249a"))
                /\ viewKV' = DeleteView(viewKV, view)
    /\ UNCHANGED <<dashboardKV, nextID, ret, lastPut, aside>>

\* d.Cells[:idx]
Rm249a(p) ==
    /\ proc[p].pc = "rm249a"
    /\ Step(p, IF proc[p].idx - 1 > Len(Cells(p)) THEN Panics(p)
               ELSE [proc[p] EXCEPT !.pc = "rm249b",
                                    !.cells = SubSeq(Cells(p), 1, proc[p].idx - 1)])
    /\ UNCHANGED <<dashboardKV, viewKV, nextID, ret, lastPut, aside>>

\* d.Cells[idx+1:], appended
Rm249b(p) ==
    /\ proc[p].pc = "rm249b"
    /\ Step(p, IF proc[p].idx > Len(Cells(p)) THEN Panics(p)
               ELSE [proc[p] EXCEPT !.pc = "rm249w",
                        !.cells = @ \o SubSeq(Cells(p), proc[p].idx + 1, Len(Cells(p)))])
    /\ UNCHANGED <<dashboardKV, viewKV, nextID, ret, lastPut, aside>>

\* d.Cells = ...
Rm249w(p) ==
    /\ proc[p].pc = "rm249w"
    /\ SetCells(p, proc[p].cells)
    /\ Step(p, Goes(p, "meta116"))
    /\ UNCHANGED <<viewKV, nextID, ret, lastPut, aside>>

\* UpdateDashboardCell, lines 257, 263, 272-284, 286, 293.
Up257(p) ==
    /\ proc[p].pc = "idle"
    /\ \E id \in DashboardIDs, cellID \in CellIDsAttached \cup {OtherID},
          upd \in Patches({0}) :
          Step(p, IF ~PatchValid(upd)
                  THEN [Blank EXCEPT !.pc = "done"]
                  ELSE [Loaded("UpdateDashboardCell", id, "up272")
                           EXCEPT !.cellID = cellID, !.upd = upd])
    /\ UNCHANGED <<dashboardKV, viewKV, nextID, ret, lastPut, aside>>

Up272(p) ==
    /\ proc[p].pc = "up272"
    /\ LET idx == CellIndex(Cells(p), proc[p].cellID)
       IN  Step(p, IF idx = 0 THEN Returns(p, ENotFound)
                   ELSE [proc[p] EXCEPT !.pc = "up286", !.idx = idx])
    /\ UNCHANGED <<dashboardKV, viewKV, nextID, ret, lastPut, aside>>

\* upd.Apply(d.Cells[idx])
Up286(p) ==
    /\ proc[p].pc = "up286"
    /\ IF proc[p].idx > Len(Cells(p))
       THEN /\ Step(p, Panics(p))
            /\ UNCHANGED dashboardKV
       ELSE /\ Step(p, Goes(p, "up293"))
            /\ SetCells(p, [Cells(p) EXCEPT ![proc[p].idx] =
                               ApplyCellUpdate(@, proc[p].upd)])
    /\ UNCHANGED <<viewKV, nextID, ret, lastPut, aside>>

\* cell := d.Cells[idx]
Up293(p) ==
    /\ proc[p].pc = "up293"
    /\ Step(p, IF proc[p].idx > Len(Cells(p)) THEN Panics(p)
               ELSE [proc[p] EXCEPT !.pc = "meta116", !.cell = Cells(p)[proc[p].idx]])
    /\ UNCHANGED <<dashboardKV, viewKV, nextID, ret, lastPut, aside>>

\* ReplaceDashboardCells, lines 308, 316-346, 348.
Rp308(p) ==
    /\ proc[p].pc = "idle"
    /\ \E id \in DashboardIDs :
          \E cs \in ConcProposals(id) :
             Step(p, [Loaded("ReplaceDashboardCells", id, "rp317") EXCEPT !.cs = cs])
    /\ UNCHANGED <<dashboardKV, viewKV, nextID, ret, lastPut, aside>>

\* ids is built from d.Cells as read here; the loop over cs follows.
Rp317(p) ==
    /\ proc[p].pc = "rp317"
    /\ LET code == ReplaceError(CellsByID(Cells(p)), proc[p].cs, 1)
       IN  Step(p, IF code # NoError THEN Returns(p, code) ELSE Goes(p, "rp348"))
    /\ UNCHANGED <<dashboardKV, viewKV, nextID, ret, lastPut, aside>>

Rp348(p) ==
    /\ proc[p].pc = "rp348"
    /\ SetCells(p, proc[p].cs)
    /\ Step(p, Goes(p, "meta116"))
    /\ UNCHANGED <<viewKV, nextID, ret, lastPut, aside>>

\* PutDashboardWithMeta, line 116: d.Meta.UpdatedAt = s.time()
Meta116(p) ==
    /\ proc[p].pc = "meta116"
    /\ dashboardKV' = [dashboardKV EXCEPT ![proc[p].dash].updatedAt = 1]
    /\ Step(p, Goes(p, "store110"))
    /\ UNCHANGED <<viewKV, nextID, ret, lastPut, aside>>

\* PutDashboard, line 110: the map is handed the object it holds; the call
\* returns.
Store110(p) ==
    /\ proc[p].pc = "store110"
    /\ dashboardKV' = PutDashboard(dashboardKV, proc[p].dash, dashboardKV[proc[p].dash])
    /\ lastPut' = [Called(proc[p].op, proc[p].dash) EXCEPT !.cell = proc[p].cell]
    /\ Step(p, Returns(p, NoError))
    /\ UNCHANGED <<viewKV, nextID, ret, aside>>

NextConc ==
    \/ ConcCreate
    \/ ConcAddCell
    \/ \E p \in Procs :
          \/ Add178(p) \/ Add185(p) \/ Add186(p) \/ Add193r(p) \/ Add193w(p)
          \/ Put205(p) \/ Put211(p) \/ Put215r(p) \/ Put215w(p)
          \/ Rm222(p) \/ Rm231(p) \/ Rm245r(p) \/ Rm245d(p)
          \/ Rm249a(p) \/ Rm249b(p) \/ Rm249w(p)
          \/ Up257(p) \/ Up272(p) \/ Up286(p) \/ Up293(p)
          \/ Rp308(p) \/ Rp317(p) \/ Rp348(p)
          \/ Meta116(p) \/ Store110(p)

SpecConc == Init /\ [][NextConc]_vars

\* ================================================================ claims
\* What ReplaceDashboardCells may be handed for dashboard id, layouts edited.
Proposals(id) == BoundedSeq(ProposedCells(id, XS), MaxCells)

\* The same with the one layout the callers of the specifications pass.
PlainProposals(id) == BoundedSeq(ProposedCells(id, {0}), MaxCells)

CellIDs(cells) == {cells[i].id : i \in 1..Len(cells)}

\* The ViewID a cell ID is bound to: that of the last attached cell with it.
BoundView(cells, id) == CellsByID(cells)[id].viewID

\* c carries an attached ID with another ViewID than the ID is bound to.
Rebound(cells, c) == c.id \in CellIDs(cells) /\ BoundView(cells, c.id) # c.viewID

\* c carries an attached ID with another ViewID than some attached cell of
\* that ID has.
ReboundFromSome(cells, c) ==
    \E i \in 1..Len(cells) : cells[i].id = c.id /\ cells[i].viewID # c.viewID

\* c carries a valid ID that no attached cell has.
Unknown(cells, c) == Valid(c.id) /\ c.id \notin CellIDs(cells)

\* c is a cell ReplaceDashboardCells must not accept as of section 5.
Bad(cells, c) == ~Valid(c.id) \/ Rebound(cells, c)

\* ------------------------------------------------------------------- C1
\* C1 as stated: at every time every cell attached to a stored dashboard
\* names a view that is in the view store.
C1_Stated ==
    \A k \in DOMAIN dashboardKV :
       \A c \in CellsOf(dashboardKV[k].cells) : c.viewID \in viewKV

\* ------------------------------------------------------------------- C2
\* C2 as stated: a dashboard has cells [A, B]; ReplaceDashboardCells with
\* [A', X], A' carrying A's ID and X an ID that is not attached, returns
\* Conflict and leaves the service as it was.
C2_Stated ==
    \A id \in DOMAIN dashboardKV :
       \A cs \in Proposals(id) :
          LET cells == dashboardKV[id].cells
              r == ReplaceDashboardCells(Svc, id, cs, 0)
          IN  (/\ Len(cells) = 2 /\ Len(cs) = 2
               /\ cs[1].id = cells[1].id
               /\ cs[2].id \notin CellIDs(cells))
              => r.code = EConflict /\ r.s = Svc

\* C2 amended: every ReplaceDashboardCells call that returns an error leaves
\* dashboards, views and generator as they were; and with cells [A, B], a
\* call with [A', X], A' carrying A's ID and the ViewID that ID is bound to,
\* X a valid ID that is not attached, returns Conflict.  (A rejected call
\* returns before the clock is read, so one reading stands for all.)
C2_ReplaceAtomic ==
    \A id \in DashboardIDs :
       \A cs \in Proposals(id) :
          LET cells == CellsAt(id)
              r == ReplaceDashboardCells(Svc, id, cs, 1)
          IN  /\ r.code # NoError => r.s = Svc
              /\ (/\ id \in DOMAIN dashboardKV
                  /\ Len(cells) = 2 /\ Len(cs) = 2
                  /\ cs[1].id = cells[1].id
                  /\ ~Rebound(cells, cs[1])
                  /\ Unknown(cells, cs[2]))
                 => r.code = EConflict

\* C2's case: a dashboard with two cells of different IDs, and a proposal
\* [A', X] of the first cell with its layout edited and a cell that is not
\* attached, which the handler answers with Conflict.
C2_Witness ==
    \E id \in DOMAIN dashboardKV :
       LET cells == dashboardKV[id].cells
       IN  /\ Len(cells) = 2
           /\ cells[1].id # cells[2].id
           /\ \E cs \in Proposals(id) :
                 /\ Len(cs) = 2
                 /\ cs[1].id = cells[1].id /\ cs[1].viewID = cells[1].viewID
                 /\ cs[1].x # cells[1].x
                 /\ Unknown(cells, cs[2])
                 /\ ReplaceDashboardCells(Svc, id, cs, 0) = Result(Svc, EConflict)

\* ------------------------------------------------------------------- C3
\* C3 as stated: ReplaceDashboardCells returns Invalid and changes nothing
\* when some proposed cell carries the zero ID or an attached ID with another
\* ViewID than the attached cell of that ID.
C3_Stated ==
    \A id \in DOMAIN dashboardKV :
       \A cs \in Proposals(id) :
          LET cells == dashboardKV[id].cells
              r == ReplaceDashboardCells(Svc, id, cs, 0)
          IN  (\E i \in 1..Len(cs) :
                  ~Valid(cs[i].id) \/ ReboundFromSome(cells, cs[i]))
              => r.code = EInvalid /\ r.s = Svc

\* C3 amended: when some proposed cell carries the zero ID or an attached ID
\* with another ViewID than the ID is bound to, the call is rejected and
\* changes nothing; the code is Conflict when a cell with a valid ID that is
\* not attached comes before every such cell, and Invalid otherwise.
C3_ReplaceRejectsRebinding ==
    \A id \in DOMAIN dashboardKV :
       \A cs \in PlainProposals(id) :
          LET cells == dashboardKV[id].cells
              r == ReplaceDashboardCells(Svc, id, cs, 1)
              unknownFirst ==
                 \E j \in 1..Len(cs) :
                    /\ Unknown(cells, cs[j])
                    /\ \A k \in 1..j : ~Bad(cells, cs[k])
          IN  (\E i \in 1..Len(cs) : Bad(cells, cs[i]))
              => /\ r.s = Svc
                 /\ r.code = IF unknownFirst THEN EConflict ELSE EInvalid

\* C3's case: a dashboard with a cell, a proposal that binds the cell to
\* another view and is answered with Invalid, one with the zero ID answered
\* with Invalid, and one with an unattached cell first answered with Conflict.
C3_Witness ==
    \E id \in DOMAIN dashboardKV :
       LET cells == dashboardKV[id].cells
       IN  /\ Len(cells) >= 1
           /\ \E cs \in PlainProposals(id) :
                 /\ Len(cs) = 1 /\ Rebound(cells, cs[1])
                 /\ ReplaceDashboardCells(Svc, id, cs, 0) = Result(Svc, EInvalid)
           /\ \E cs \in PlainProposals(id) :
                 /\ Len(cs) = 2 /\ cs[1] \in CellsOf(cells) /\ ~Valid(cs[2].id)
                 /\ ReplaceDashboardCells(Svc, id, cs, 0) = Result(Svc, EInvalid)
           /\ \E cs \in PlainProposals(id) :
                 /\ Len(cs) = 2 /\ Unknown(cells, cs[1]) /\ Rebound(cells, cs[2])
                 /\ ReplaceDashboardCells(Svc, id, cs, 0) = Result(Svc, EConflict)

\* ------------------------------------------------------------------- C4
\* C4: after a ReplaceDashboardCells call that succeeds the dashboard's cell
\* list is the proposed list, every proposed cell carries the ID and ViewID
\* of a cell attached before, UpdatedAt is the clock's reading, and the view
\* store, the generator and everything else stored are as before.
C4_ReplaceSucceeds ==
    \A id \in DOMAIN dashboardKV :
       \A cs \in Proposals(id) :
          ReplaceDashboardCells(Svc, id, cs, 0).code = NoError
          => \A t \in Times :
                LET d == dashboardKV[id]
                    r == ReplaceDashboardCells(Svc, id, cs, t)
                IN  /\ r.code = NoError
                    /\ DOMAIN r.s.kv = DOMAIN dashboardKV
                    /\ r.s.kv[id].cells = cs
                    /\ \A i \in 1..Len(cs) :
                          \E j \in 1..Len(d.cells) :
                             /\ d.cells[j].id = cs[i].id
                             /\ d.cells[j].viewID = cs[i].viewID
                    /\ r.s.kv[id].updatedAt = t
                    /\ r.s.kv[id].name = d.name
                    /\ r.s.kv[id].createdAt = d.createdAt
                    /\ \A k \in DOMAIN dashboardKV \ {id} : r.s.kv[k] = dashboardKV[k]
                    /\ r.s.views = viewKV
                    /\ r.s.next = nextID

\* C4's case: the last call was a ReplaceDashboardCells that succeeded and
\* left two cells, and a proposal that reorders them and edits a layout
\* succeeds as well.
C4_Witness ==
    /\ ret.op = "ReplaceDashboardCells" /\ ret.code = NoError
    /\ ret.dash \in DOMAIN dashboardKV
    /\ LET cells == dashboardKV[ret.dash].cells
       IN  /\ Len(cells) = 2 /\ cells[1].id # cells[2].id
           /\ \E cs \in Proposals(ret.dash) :
                 /\ Len(cs) = 2 /\ cs[1].id = cells[2].id /\ cs[2].id = cells[1].id
                 /\ cs[1].x # cells[2].x
                 /\ ReplaceDashboardCells(Svc, ret.dash, cs, 1).code = NoError

\* ------------------------------------------------------------------- C5
\* C5: on a stored dashboard, an AddDashboardCell call that succeeds followed
\* by RemoveDashboardCell with the ID the first call assigned succeeds and
\* leaves the cell list it was before the two calls, same cells in the same
\* order, and the view the added cell was bound to is not in the view store.
C5_AddRemoveRoundTrip ==
    \A id \in DOMAIN dashboardKV :
       \A x \in XS, usingView \in {InvalidID} \cup KnownViewIDs, t1 \in Times, t2 \in Times :
          LET add == AddDashboardCell(Svc, id, Cell(InvalidID, InvalidID, x), usingView, t1)
              assigned == GenerateID(nextID)
              added == add.s.kv[id].cells[Len(add.s.kv[id].cells)]
              rm == RemoveDashboardCell(add.s, id, assigned, t2)
          IN  add.code = NoError
              => /\ added.id = assigned
                 /\ added.viewID \in add.s.views
                 /\ rm.code = NoError
                 /\ rm.s.kv[id].cells = dashboardKV[id].cells
                 /\ added.viewID \notin rm.s.views
                 /\ usingView = InvalidID => rm.s.views = viewKV

\* C5's case: the last call was an AddDashboardCell that succeeded on a
\* dashboard that had a cell before, its view is stored, and removing the
\* added cell gives back the list without it and takes the view away.
C5_Witness ==
    /\ ret.op = "AddDashboardCell" /\ ret.code = NoError
    /\ ret.dash \in DOMAIN dashboardKV
    /\ LET cells == dashboardKV[ret.dash].cells
           added == cells[Len(cells)]
           rm == RemoveDashboardCell(Svc, ret.dash, added.id, 1)
       IN  /\ Len(cells) = 2
           /\ added.id = nextID - 2
           /\ added.viewID = nextID - 1 /\ added.viewID \in viewKV
           /\ rm.code = NoError
           /\ rm.s.kv[ret.dash].cells = <<cells[1]>>
           /\ rm.s.views = viewKV \ {added.viewID}

\* ------------------------------------------------------------------- C6
\* The places a cell is attached at: dashboard and index.
Places == {<<k, i>> : k \in DOMAIN dashboardKV, i \in 1..MaxCells + 1} \cap
          {p \in (DOMAIN dashboardKV) \X (1..MaxCells + 1) :
              p[2] <= Len(dashboardKV[p[1]].cells)}

CellAt(p) == dashboardKV[p[1]].cells[p[2]]

\* C6 as stated: in every state no two attached cells, of one dashboard or
\* of two, carry the same ViewID.
C6_Stated ==
    \A p \in Places, q \in Places : p # q => CellAt(p).viewID # CellAt(q).viewID

\* ------------------------------------------------------------------- C7
\* C7 as stated: after any sequence of cell operations on dashboards that
\* are never deleted, every view in the view store is named by some attached
\* cell.
C7_Stated == \A v \in viewKV : \E c \in AttachedCells(dashboardKV) : c.viewID = v

\* ------------------------------------------------------------------- C8
\* C8 as stated: in every state a cell ID occurs at most once over all stored
\* dashboards, never twice in one cell list and never in two dashboards.
C8_Stated ==
    \A p \in Places, q \in Places : p # q => CellAt(p).id # CellAt(q).id

\* ------------------------------------------------------------------- C9
\* C9 as stated: under any interleaving of the cell handlers of two callers,
\* in every state where no call is in progress each attached cell's ViewID is
\* in the view store.
C9_Stated ==
    AllReturned =>
       \A c \in AttachedCells(dashboardKV) : c.viewID \in viewKV

\* ------------------------------------------------------------------ C10
\* C10 as stated: once the calls have returned the stored record is the one
\* the later Put wrote: when the call that ran the last Put appended a cell
\* and returned success, that cell is in the stored cell list.
C10_Stated ==
    (/\ AllReturned
     /\ lastPut.op \in {"AddDashboardCell", "PutDashboardCell"})
    => lastPut.cell \in CellsOf(dashboardKV[lastPut.dash].cells)

\* ------------------------------------------------------------------ C11
\* C11: AddDashboardCell on a missing dashboard, or with a view-creation
\* step that returns an error, returns an error and leaves every stored
\* dashboard (cell list, UpdatedAt) and the view store as they were; any
\* other call succeeds, appends one cell at the end behind the earlier cells
\* in their order, gives it the generator's next ID, which no attached cell
\* has, and a stored view, and sets UpdatedAt to the clock's reading.
C11_AddCellAtomic ==
    \A id \in DashboardIDs :
       \A x \in XS, usingView \in {InvalidID, OtherID} \cup KnownViewIDs, t \in Times :
          LET r == AddDashboardCell(Svc, id, Cell(InvalidID, InvalidID, x), usingView, t)
              viewError == createViewIfNotExists(viewKV, nextID + 1, usingView).code
          IN  IF id \notin DOMAIN dashboardKV \/ viewError # NoError
              THEN /\ r.code # NoError
                   /\ r.s.kv = dashboardKV
                   /\ r.s.views = viewKV
              ELSE LET old == dashboardKV[id].cells
                       new == r.s.kv[id].cells
                   IN  /\ r.code = NoError
                       /\ Len(new) = Len(old) + 1
                       /\ SubSeq(new, 1, Len(old)) = old
                       /\ new[Len(new)].id = GenerateID(nextID)
                       /\ Valid(new[Len(new)].id)
                       /\ new[Len(new)].id \notin CellIDsAttached
                       /\ new[Len(new)].viewID \in r.s.views
                       /\ new[Len(new)].x = x
                       /\ r.s.kv[id].updatedAt = t
                       /\ r.s.kv[id].createdAt = dashboardKV[id].createdAt
                       /\ \A k \in DOMAIN dashboardKV \ {id} : r.s.kv[k] = dashboardKV[k]

\* C11's case: the last call was an AddDashboardCell that succeeded and put
\* its cell behind an earlier one, and a further call that names a view
\* which is not stored is answered with an error and changes no dashboard.
C11_Witness ==
    /\ ret.op = "AddDashboardCell" /\ ret.code = NoError
    /\ ret.dash \in DOMAIN dashboardKV
    /\ Len(dashboardKV[ret.dash].cells) = 2
    /\ dashboardKV[ret.dash].cells[2].id = nextID - 2
    /\ dashboardKV[ret.dash].updatedAt = 1
    /\ LET r == AddDashboardCell(Svc, ret.dash, NoCell, OtherID, 0)
       IN  r.code = ENotFound /\ r.s.kv = dashboardKV /\ r.s.views = viewKV

\* ------------------------------------------------------------------ C12
\* C12: RemoveDashboardCell on a stored dashboard with a cell ID that no
\* attached cell has returns NotFound and changes nothing; and when deleting
\* the view of the cell fails, it returns that error, the cell list is as it
\* was and nothing else has changed.
C12_RemoveCellFailure ==
    \A id \in DOMAIN dashboardKV :
       \A cellID \in KnownCellIDs \cup {OtherID}, t \in Times :
          LET cells == dashboardKV[id].cells
              r == RemoveDashboardCell(Svc, id, cellID, t)
              idx == CellIndex(cells, cellID)
          IN  /\ cellID \notin CellIDs(cells) => r = Result(Svc, ENotFound)
              /\ (/\ cellID \in CellIDs(cells)
                  /\ DeleteViewError(viewKV, cells[idx].viewID) # NoError)
                 => /\ r.code = DeleteViewError(viewKV, cells[idx].viewID)
                    /\ r.s.kv[id].cells = cells
                    /\ r.s = Svc

\* C12's case: a dashboard with an attached cell whose view is not stored,
\* so that removing the cell fails on the view and leaves the cell attached,
\* and a cell ID that is not attached, answered with NotFound.
C12_Witness ==
    \E id \in DOMAIN dashboardKV :
       LET cells == dashboardKV[id].cells
       IN  /\ \E i \in 1..Len(cells) :
                /\ cells[i].viewID \notin viewKV
                /\ CellIndex(cells, cells[i].id) = i
                /\ RemoveDashboardCell(Svc, id, cells[i].id, 1) = Result(Svc, ENotFound)
           /\ Len(cells) >= 1
           /\ RemoveDashboardCell(Svc, id, OtherID, 1) = Result(Svc, ENotFound)

\* ------------------------------------------------------------------ C13
\* C13: CreateDashboard(d) succeeds, and FindDashboardByID of the generated
\* ID then finds a dashboard with d's name and d's cells, whose CreatedAt
\* and UpdatedAt are the clock's readings, whatever d carried in them; the
\* generated ID being a new one, every dashboard stored before is as it was.
C13_CreateFindRoundTrip ==
    \A d \in CallerDashboards(Names, XS, Times, Times), t1 \in Times, t2 \in Times :
       LET r == CreateDashboard(Svc, d, t1, t2)
           id == GenerateID(nextID)
       IN  /\ r.code = NoError
           /\ Valid(id)
           /\ FindDashboardByID(r.s.kv, id) = NoError
           /\ loadDashboard(r.s.kv, id).name = d.name
           /\ loadDashboard(r.s.kv, id).cells = d.cells
           /\ loadDashboard(r.s.kv, id).createdAt = t1
           /\ loadDashboard(r.s.kv, id).updatedAt = t2
           /\ id \notin DOMAIN dashboardKV
              => /\ DOMAIN r.s.kv = DOMAIN dashboardKV \cup {id}
                 /\ \A k \in DOMAIN dashboardKV : r.s.kv[k] = dashboardKV[k]

\* C13's case: the last call created a second dashboard, found under the
\* generated ID as it was handed over, beside one that was renamed before
\* and still carries its new name.
C13_Witness ==
    /\ ret.op = "CreateDashboard" /\ ret.code = NoError
    /\ FindDashboardByID(dashboardKV, ret.dash) = NoError
    /\ ret.dash = nextID - 1
    /\ loadDashboard(dashboardKV, ret.dash).name = "a"
    /\ \E k \in DOMAIN dashboardKV :
          /\ k # ret.dash
          /\ dashboardKV[k].name = "b"
          /\ dashboardKV[k].updatedAt = 1

\* ------------------------------------------------------------------ C14
\* C14: FindDashboards with exactly one ID in filter.IDs returns, when no
\* dashboard is stored under it, no dashboard, the count 0 and no error,
\* and when one is stored, that dashboard alone and the count 1, whatever
\* the sort field.
C14_FindOneID ==
    \A id \in DashboardIDs \cup {InvalidID}, by \in SortFields :
       FindDashboards(dashboardKV, <<id>>, by) =
          {IF id \in DOMAIN dashboardKV
           THEN [ds |-> <<id>>, n |-> 1, code |-> NoError]
           ELSE [ds |-> <<>>, n |-> 0, code |-> NoError]}

\* C14's case: two dashboards were stored and the last call deleted one;
\* the lookup of the deleted ID returns nothing without an error, the
\* lookup of the other ID returns it alone.
C14_Witness ==
    /\ ret.op = "DeleteDashboard"
    /\ ret.dash \notin DOMAIN dashboardKV
    /\ FindDashboards(dashboardKV, <<ret.dash>>, "ID") = {Found(<<>>, NoError)}
    /\ \E id \in DOMAIN dashboardKV :
          FindDashboards(dashboardKV, <<id>>, "ID") = {Found(<<id>>, NoError)}

\* ------------------------------------------------------------------ C15
\* C15: FindDashboards with no filter ID returns every stored dashboard,
\* and with two filter IDs the stored dashboards whose ID is one of them,
\* each exactly once, in ascending order of the sort field, with the count
\* equal to the length of the result and no error; IDs in the filter that
\* are not stored, or that occur twice, add nothing.
C15_FindScan ==
    \A fids \in {<<>>} \cup [1..2 -> DashboardIDs \cup {OtherID}], by \in SortFields :
       LET matching == IF fids = <<>> THEN DOMAIN dashboardKV
                       ELSE DOMAIN dashboardKV \cap {fids[i] : i \in DOMAIN fids}
           results == FindDashboards(dashboardKV, fids, by)
       IN  /\ results # {}
           /\ \A r \in results :
                 /\ r.code = NoError
                 /\ r.n = Len(r.ds)
                 /\ {r.ds[i] : i \in DOMAIN r.ds} = matching
                 /\ Len(r.ds) = Cardinality(matching)
                 /\ \A i \in DOMAIN r.ds, j \in DOMAIN r.ds :
                       i < j => SortKey(dashboardKV, by, r.ds[i])
                                   <= SortKey(dashboardKV, by, r.ds[j])

\* C15's case: two dashboards are stored, the one with the larger ID under
\* the smaller name; the scan without a filter returns both, in the order
\* of the names when sorted by name and of the IDs when sorted by ID, and
\* a filter that names one of them twice, or one of them and an ID that is
\* not stored, returns that one alone.
C15_Witness ==
    \E a \in DOMAIN dashboardKV, b \in DOMAIN dashboardKV :
       /\ a < b
       /\ dashboardKV[a].name = "b" /\ dashboardKV[b].name = "a"
       /\ FindDashboards(dashboardKV, <<>>, "Name") = {Found(<<b, a>>, NoError)}
       /\ FindDashboards(dashboardKV, <<>>, "ID") = {Found(<<a, b>>, NoError)}
       /\ FindDashboards(dashboardKV, <<a, a>>, "ID") = {Found(<<a>>, NoError)}
       /\ FindDashboards(dashboardKV, <<ForeignID, b>>, "ID") = {Found(<<b>>, NoError)}

\* ------------------------------------------------------------------ C16
\* C16: DeleteDashboard of a stored dashboard returns what the deletion of
\* its labels returns, nil or an error, and in both cases the dashboard is
\* gone, FindDashboardByID failing with NotFound, and the other dashboards
\* are as they were; DeleteDashboard of an ID that is not stored fails with
\* NotFound, whatever the label deletion would return, and changes nothing.
C16_DeleteNoRollback ==
    \A id \in DashboardIDs \cup {InvalidID}, labelError \in {NoError, "internal error"} :
       LET r == DeleteDashboard(Svc, id, labelError)
       IN  IF id \in DOMAIN dashboardKV
           THEN /\ r.code = labelError
                /\ FindDashboardByID(r.s.kv, id) = ENotFound
                /\ DOMAIN r.s.kv = DOMAIN dashboardKV \ {id}
                /\ \A k \in DOMAIN r.s.kv : r.s.kv[k] = dashboardKV[k]
           ELSE r = Result(Svc, ENotFound)

\* C16's case: the last call was a DeleteDashboard that returned the error
\* of the label deletion; the dashboard is gone all the same, and deleting
\* it once more fails with NotFound.
C16_Witness ==
    /\ ret.op = "DeleteDashboard" /\ ret.code = "internal error"
    /\ FindDashboardByID(dashboardKV, ret.dash) = ENotFound
    /\ DeleteDashboard(Svc, ret.dash, NoError) = Result(Svc, ENotFound)
    /\ dashboardKV # << >>

\* ------------------------------------------------------------------ C17
\* C17: DeleteDashboard leaves the view store as it was: the views that
\* the cells of the deleted dashboard name are in the view store after the
\* call as they were before, whatever the label deletion returns.
C17_DeleteKeepsViews ==
    \A id \in DashboardIDs, labelError \in {NoError, "internal error"} :
       LET r == DeleteDashboard(Svc, id, labelError)
       IN  /\ r.s.views = viewKV
           /\ id \in DOMAIN dashboardKV
              => /\ id \notin DOMAIN r.s.kv
                 /\ \A c \in CellsOf(dashboardKV[id].cells) :
                       c.viewID \in viewKV => c.viewID \in r.s.views

\* C17's case: the last call deleted the only dashboard, no dashboard is
\* left, and the view store still holds a view, which a cell of a deleted
\* dashboard had brought in.
C17_Witness ==
    /\ ret.op = "DeleteDashboard" /\ ret.code = NoError
    /\ dashboardKV = << >>
    /\ nextID - 1 \in viewKV

\* ------------------------------------------------------------------ C18
\* C18: a PutDashboardCell that succeeds leaves the dashboard's UpdatedAt
\* as it was, and PutDashboard stores the UpdatedAt the dashboard comes
\* with; CreateDashboard, PutDashboardWithMeta and every successful
\* UpdateDashboard, AddDashboardCell, RemoveDashboardCell,
\* UpdateDashboardCell and ReplaceDashboardCells store the clock's reading
\* in UpdatedAt; the five cell handlers leave CreatedAt as it was.
C18_UpdatedAt ==
    \A id \in DOMAIN dashboardKV, t \in Times :
       LET d == dashboardKV[id]
           Kept(r) == r.code = NoError
                         => /\ r.s.kv[id].updatedAt = d.updatedAt
                            /\ r.s.kv[id].createdAt = d.createdAt
           Stamped(r) == r.code = NoError
                            => /\ r.s.kv[id].updatedAt = t
                               /\ r.s.kv[id].createdAt = d.createdAt
       IN  /\ \A cell \in CallerCells({0}) : Kept(PutDashboardCell(Svc, id, cell))
           /\ \A o \in CallerDashboards({"a"}, {0}, Times, Times) :
                 /\ PutDashboard(dashboardKV, id, o)[id].updatedAt = o.updatedAt
                 /\ PutDashboardWithMeta(dashboardKV, id, o, t)[id].updatedAt = t
                 /\ CreateDashboard(Svc, o, 0, t).s.kv[GenerateID(nextID)].updatedAt = t
           /\ \A upd \in Patches(Names) :
                 LET r == UpdateDashboard(Svc, id, upd, t)
                 IN  r.code = NoError => r.s.kv[id].updatedAt = t
           /\ \A usingView \in {InvalidID} \cup KnownViewIDs :
                 Stamped(AddDashboardCell(Svc, id, NoCell, usingView, t))
           /\ \A cellID \in KnownCellIDs :
                 /\ Stamped(RemoveDashboardCell(Svc, id, cellID, t))
                 /\ \A upd \in Patches(XS) :
                       Stamped(UpdateDashboardCell(Svc, id, cellID, upd, t))
           /\ \A cs \in PlainProposals(id) :
                 Stamped(ReplaceDashboardCells(Svc, id, cs, t))

\* C18's case: a dashboard created at time 0 whose last change was a
\* PutDashboardCell: it holds the cell and its UpdatedAt is still 0, while
\* AddDashboardCell, or the removal of that cell, at time 1 leaves it with
\* UpdatedAt 1.
C18_Witness ==
    /\ ret.op = "PutDashboardCell" /\ ret.code = NoError
    /\ ret.dash \in DOMAIN dashboardKV
    /\ Len(dashboardKV[ret.dash].cells) = 1
    /\ dashboardKV[ret.dash].updatedAt = 0
    /\ LET r == AddDashboardCell(Svc, ret.dash, NoCell, InvalidID, 1)
       IN  r.code = NoError /\ r.s.kv[ret.dash].updatedAt = 1
    /\ LET r == RemoveDashboardCell(Svc, ret.dash, dashboardKV[ret.dash].cells[1].id, 1)
       IN  r.code = NoError /\ r.s.kv[ret.dash].updatedAt = 1

\* ------------------------------------------------------------------ C19
\* C19: UpdateDashboard with a patch that fails validation returns Invalid,
\* whether a dashboard is stored under the ID or not; with a valid patch
\* and no dashboard under the ID it returns FindDashboardByID's error,
\* NotFound; in both cases nothing has changed.  Otherwise it succeeds: the
\* patched dashboard is stored under the same ID, with UpdatedAt the
\* clock's reading, its cells and CreatedAt as they were, and no other
\* dashboard has changed.
C19_UpdateOrder ==
    \A id \in DashboardIDs \cup {InvalidID}, upd \in Patches(Names), t \in Times :
       LET r == UpdateDashboard(Svc, id, upd, t)
       IN  IF ~PatchValid(upd) THEN r = Result(Svc, EInvalid)
           ELSE IF id \notin DOMAIN dashboardKV
           THEN /\ r = Result(Svc, FindDashboardByID(dashboardKV, id))
                /\ r.code = ENotFound
           ELSE /\ r.code = NoError
                /\ DOMAIN r.s.kv = DOMAIN dashboardKV
                /\ r.s.kv[id].name \in upd
                /\ r.s.kv[id].updatedAt = t
                /\ r.s.kv[id].cells = dashboardKV[id].cells
                /\ r.s.kv[id].createdAt = dashboardKV[id].createdAt
                /\ \A k \in DOMAIN dashboardKV \ {id} : r.s.kv[k] = dashboardKV[k]
                /\ r.s.views = viewKV

\* C19's case: the last call renamed a dashboard that holds a cell: the
\* name is the new one, UpdatedAt the clock's reading, the cell is there;
\* a patch that assigns nothing is answered with Invalid for this dashboard
\* and for an ID that is not stored, a valid patch for that ID with NotFound.
C19_Witness ==
    /\ ret.op = "UpdateDashboard" /\ ret.code = NoError
    /\ ret.dash \in DOMAIN dashboardKV
    /\ dashboardKV[ret.dash].name = "b"
    /\ dashboardKV[ret.dash].updatedAt = 1
    /\ Len(dashboardKV[ret.dash].cells) = 1
    /\ UpdateDashboard(Svc, ret.dash, {}, 1) = Result(Svc, EInvalid)
    /\ UpdateDashboard(Svc, ForeignID, {}, 1) = Result(Svc, EInvalid)
    /\ UpdateDashboard(Svc, ForeignID, {"a"}, 1) = Result(Svc, ENotFound)

Labelled(err, op) == err # NilError => ErrorOp(err) = op

C21_Stated ==
    \A id \in DashboardIDs \cup {InvalidID} :
       /\ Labelled(FindDashboardByIDError(dashboardKV, id), OpFindDashboardByID)
       /\ Labelled(FindDashboardsError(dashboardKV, <<id>>), OpFindDashboards)
       /\ Labelled(CreateDashboardError(Svc, Blank), OpCreateDashboard)
       /\ \A upd \in Patches(Names) :
             Labelled(UpdateDashboardError(Svc, id, upd), OpUpdateDashboard)
       /\ \A labelErr \in {NilError, OpaqueError} :
             Labelled(DeleteDashboardError(Svc, id, labelErr), OpDeleteDashboard)
       /\ \A usingView \in {InvalidID, OtherID} \cup KnownViewIDs :
             Labelled(AddDashboardCellError(Svc, id, usingView), OpAddDashboardCell)
       /\ Labelled(PutDashboardCellError(Svc, id), OpPutDashboardCell)
       /\ \A cellID \in KnownCellIDs \cup {OtherID} :
             /\ Labelled(RemoveDashboardCellError(Svc, id, cellID), OpRemoveDashboardCell)
             /\ \A upd \in Patches(XS) :
                   Labelled(UpdateDashboardCellError(Svc, id, cellID, upd),
                            OpUpdateDashboardCell)
       /\ \A cs \in PlainProposals(id) :
             Labelled(ReplaceDashboardCellsError(Svc, id, cs), OpReplaceDashboardCells)

\* ------------------------------------------------------------------ C27
\* C27: for an ID under which no dashboard is stored, FindDashboardByID,
\* DeleteDashboard, AddDashboardCell, PutDashboardCell, RemoveDashboardCell,
\* ReplaceDashboardCells, and UpdateDashboard and UpdateDashboardCell with a
\* valid patch, return an error whose ErrorCode is NotFound, and still is
\* when further operation labels are wrapped around it, and leave the
\* dashboards, the view store and the generator as they were.
NotFoundUnchanged(r, err) ==
    /\ r = Result(Svc, ENotFound)
    /\ err # NilError
    /\ ErrorCode(err) = ENotFound
    /\ ErrorCode(Wrap(OpFindDashboards, err)) = ENotFound
    /\ ErrorCode(Wrap(OpUpdateDashboard, Wrap(OpFindDashboards, err))) = ENotFound

C27_MissingDashboard ==
    \A id \in (DashboardIDs \cup {InvalidID, OtherID, ret.dash}) \ DOMAIN dashboardKV :
       /\ NotFoundUnchanged(Result(Svc, FindDashboardByID(dashboardKV, id)),
                            FindDashboardByIDError(dashboardKV, id))
       /\ NotFoundUnchanged(DeleteDashboard(Svc, id, NoError),
                            DeleteDashboardError(Svc, id, NilError))
       /\ NotFoundUnchanged(DeleteDashboard(Svc, id, EInternal),
                            DeleteDashboardError(Svc, id, OpaqueError))
       /\ NotFoundUnchanged(PutDashboardCell(Svc, id, NoCell),
                            PutDashboardCellError(Svc, id))
       /\ \A usingView \in {InvalidID, OtherID} \cup KnownViewIDs :
             NotFoundUnchanged(AddDashboardCell(Svc, id, NoCell, usingView, 1),
                               AddDashboardCellError(Svc, id, usingView))
       /\ \A cell \in CallerCells({0}) :
             /\ PutDashboardCell(Svc, id, cell) = Result(Svc, ENotFound)
             /\ NotFoundUnchanged(ReplaceDashboardCells(Svc, id, <<cell>>, 1),
                                  ReplaceDashboardCellsError(Svc, id, <<cell>>))
       /\ \A cellID \in KnownCellIDs :
             /\ NotFoundUnchanged(RemoveDashboardCell(Svc, id, cellID, 1),
                                  RemoveDashboardCellError(Svc, id, cellID))
             /\ \A upd \in Patches(XS) \ {{}} :
                   NotFoundUnchanged(UpdateDashboardCell(Svc, id, cellID, upd, 1),
                                     UpdateDashboardCellError(Svc, id, cellID, upd))
       /\ \A upd \in Patches(Names) \ {{}} :
             NotFoundUnchanged(UpdateDashboard(Svc, id, upd, 1),
                               UpdateDashboardError(Svc, id, upd))

\* C27's case: the last call deleted a dashboard while another one holds a
\* cell with a stored view; PutDashboardCell for the deleted ID returns the
\* lookup's error, NotFound under one label, and RemoveDashboardCell for it,
\* naming the attached cell, NotFound under two, and neither changes a
\* store.
C27_Witness ==
    /\ ret.op = "DeleteDashboard"
    /\ ret.dash \notin DOMAIN dashboardKV
    /\ \E k \in DOMAIN dashboardKV :
          /\ Len(dashboardKV[k].cells) >= 1
          /\ dashboardKV[k].cells[1].viewID \in viewKV
          /\ RemoveDashboardCell(Svc, ret.dash, dashboardKV[k].cells[1].id, 1)
                = Result(Svc, ENotFound)
          /\ RemoveDashboardCellError(Svc, ret.dash, dashboardKV[k].cells[1].id)
                = <<Layer("", OpRemoveDashboardCell), Layer("", OpFindDashboardByID),
                    Layer(ENotFound, "")>>
          /\ PutDashboardCell(Svc, ret.dash, dashboardKV[k].cells[1])
                = Result(Svc, ENotFound)
    /\ PutDashboardCellError(Svc, ret.dash)
          = <<Layer("", OpFindDashboardByID), Layer(ENotFound, "")>>
    /\ ErrorCode(PutDashboardCellError(Svc, ret.dash)) = ENotFound

\* ------------------------------------------------------------------ C28
\* The first layer of a chain that is a platform.Error with a Code, and the
\* first that is no platform.Error; 0 when there is none.
FirstCoded(err) ==
    LET S == {i \in DOMAIN err : err[i].kind = "struct" /\ err[i].code # ""}
    IN  IF S = {} THEN 0 ELSE CHOOSE i \in S : \A j \in S : i <= j

FirstEnd(err) ==
    LET S == {i \in DOMAIN err : err[i].kind # "struct"}
    IN  IF S = {} THEN 0 ELSE CHOOSE i \in S : \A j \in S : i <= j

C30_RemoveOne ==
    \A id \in DOMAIN dashboardKV, cellID \in KnownCellIDs \cup {OtherID}, t \in Times :
       LET r == RemoveDashboardCell(Svc, id, cellID, t)
           old == dashboardKV[id].cells
           new == r.s.kv[id].cells
           first == CHOOSE i \in 1..Len(old) :
                       /\ old[i].id = cellID
                       /\ \A j \in 1..(i - 1) : old[j].id # cellID
       IN  r.code = NoError
           => /\ cellID \in CellIDs(old)
              /\ Len(new) = Len(old) - 1
              /\ \A i \in 1..Len(new) :
                    new[i] = IF i < first THEN old[i] ELSE old[i + 1]
              /\ old[first].viewID \in viewKV
              /\ r.s.views = viewKV \ {old[first].viewID}
              /\ DOMAIN r.s.kv = DOMAIN dashboardKV
              /\ \A k \in DOMAIN dashboardKV \ {id} : r.s.kv[k] = dashboardKV[k]
              /\ r.s.kv[id].updatedAt = t
              /\ r.s.next = nextID

\* C30's case: a dashboard that holds two cells with one ID, and a second
\* dashboard that holds a cell bound to the same view; removing the ID from
\* the first dashboard leaves it one cell, the second of the two, takes the
\* view out of the view store and leaves the second dashboard as it is.
C30_Witness ==
    \E a \in DOMAIN dashboardKV, b \in DOMAIN dashboardKV :
       LET cells == dashboardKV[a].cells
           r == RemoveDashboardCell(Svc, a, cells[2].id, 1)
       IN  /\ a # b
           /\ Len(cells) = 2
           /\ cells[1].id = cells[2].id
           /\ cells[1].viewID \in viewKV
           /\ Len(dashboardKV[b].cells) >= 1
           /\ dashboardKV[b].cells[1].viewID = cells[1].viewID
           /\ r.code = NoError
           /\ r.s.kv[a].cells = <<cells[2]>>
           /\ r.s.views = viewKV \ {cells[1].viewID}
           /\ r.s.views # viewKV
           /\ r.s.kv[b] = dashboardKV[b]

\* ------------------------------------------------------------------ C29
\* C29, as stated: whatever the map holds, a value that is no dashboard
\* included, FindDashboards with the one filter ID id has the outcomes,
\* dashboards, count and error, of the scan of the whole map for the
\* dashboards with that ID, which is FindDashboards with the filter IDs
\* id, id.
C29_Stated ==
    \A id \in 1..MaxID \cup {ForeignID}, by \in SortFields :
       FindDashboards(dashboardKV, <<id>>, by) = FindDashboards(dashboardKV, <<id, id>>, by)

\* ------------------------------------------------------------------ C22
\* C22: Name returns no name and an Invalid error whenever the ID is the
\* zero ID or the kind is none the service knows, whatever the stores hold:
\* also for a kind without names, and also when an entity is stored under
\* the ID.  (Name hands back a name and an error and no store.)
C22_NameInvalid ==
    \A kind \in Kinds, id \in 0..MaxID \cup {ForeignID} :
       (~Valid(id) \/ kind \notin RecognizedKinds)
          => Name(dashboardKV, nameKV, kind, id) = Named("", EInvalid)

\* C22's case: a bucket and a dashboard are stored; Name of an unknown kind
\* with the ID of either, and Name of buckets, dashboards and tasks with
\* the zero ID, return Invalid.
C22_Witness ==
    \E b \in DOMAIN nameKV["buckets"], d \in DOMAIN dashboardKV :
       /\ Name(dashboardKV, nameKV, "invalid", b) = Named("", EInvalid)
       /\ Name(dashboardKV, nameKV, "invalid", d) = Named("", EInvalid)
       /\ Name(dashboardKV, nameKV, "buckets", InvalidID) = Named("", EInvalid)
       /\ Name(dashboardKV, nameKV, "dashboards", InvalidID) = Named("", EInvalid)
       /\ Name(dashboardKV, nameKV, "tasks", InvalidID) = Named("", EInvalid)
       /\ Name(dashboardKV, nameKV, "buckets", b).code = NoError

\* ------------------------------------------------------------------ C23
\* C23: for authorizations, tasks and sources and every valid ID, Name
\* returns the empty name and no error, whether an entity of any kind is
\* stored under the ID or not.
C23_Nameless ==
    \A kind \in NamelessKinds, id \in 1..MaxID \cup {ForeignID} :
       Name(dashboardKV, nameKV, kind, id) = Named("", NoError)

\* C23's case: a user is stored under one ID and nothing under another;
\* Name of tasks, sources and authorizations returns the empty name and no
\* error for both.
C23_Witness ==
    \E u \in DOMAIN nameKV["users"] :
       /\ nameKV["users"][u] = "b"
       /\ \A k \in NamedKinds : ForeignID \notin DOMAIN nameKV[k]
       /\ ForeignID \notin DOMAIN dashboardKV
       /\ \A kind \in NamelessKinds :
             /\ Name(dashboardKV, nameKV, kind, u) = Named("", NoError)
             /\ Name(dashboardKV, nameKV, kind, ForeignID) = Named("", NoError)

\* ------------------------------------------------------------------ C24
\* C24: for buckets, dashboards, orgs, telegrafs and users and every valid
\* ID, Name returns NotFound when the store of that kind holds no entity
\* under the ID, and otherwise, without an error, the name of the entity
\* that store holds under the ID now.
C24_Named ==
    \A kind \in NamedKinds \cup {"dashboards"}, id \in 1..MaxID \cup {ForeignID} :
       Name(dashboardKV, nameKV, kind, id) =
          IF kind = "dashboards"
          THEN IF id \in DOMAIN dashboardKV
               THEN Named(dashboardKV[id].name, NoError)
               ELSE Named("", ENotFound)
          ELSE IF id \in DOMAIN nameKV[kind]
               THEN Named(nameKV[kind][id], NoError)
               ELSE Named("", ENotFound)

\* C24's case: a bucket created under the name "a", a later bucket under
\* the name "b", and a dashboard created as "a" and renamed "b"; Name
\* returns each entity's name of now, and NotFound for the bucket's ID
\* among the users and for the dashboard's ID among the buckets.
C24_Witness ==
    \E b1 \in DOMAIN nameKV["buckets"], b2 \in DOMAIN nameKV["buckets"],
       d \in DOMAIN dashboardKV :
       /\ b1 < b2
       /\ Name(dashboardKV, nameKV, "buckets", b1) = Named("a", NoError)
       /\ Name(dashboardKV, nameKV, "buckets", b2) = Named("b", NoError)
       /\ ret = Returned("UpdateDashboard", d, NoError)
       /\ Name(dashboardKV, nameKV, "dashboards", d) = Named("b", NoError)
       /\ Name(dashboardKV, nameKV, "users", b1) = Named("", ENotFound)
       /\ Name(dashboardKV, nameKV, "buckets", d) = Named("", ENotFound)

\* ------------------------------------------------------------------ C25
\* C25: ToPermissions of an Owner's mapping returns the write permission
\* and then the read permission on the mapping's resource and resource ID,
\* of a Member's mapping the read permission alone, and of a mapping of any
\* other user type no permission and ErrInvalidUserType; when a permission
\* cannot be built it returns no permission at all and the error of the
\* build.  A Member's permissions are among those of an Owner of the same
\* resource.
C25_ToPermissions ==
    /\ authz.op = "ToPermissions" =>
          LET at(a) == Permission(a, authz.resource, authz.id, TRUE)
              fails == NewPermissionAtID(authz.id, WriteAction, authz.resource).err # NoError
                       \/ NewPermissionAtID(authz.id, ReadAction, authz.resource).err # NoError
          IN  IF UserTypeValid(authz.userType) # NoError
              THEN authz.ps = <<>> /\ authz.err = ErrInvalidUserType
              ELSE IF fails
              THEN authz.ps = <<>> /\ authz.err \notin {NoError, ErrInvalidUserType}
              ELSE IF authz.userType = Owner
              THEN authz.ps = <<at(WriteAction), at(ReadAction)>> /\ authz.err = NoError
              ELSE authz.ps = <<at(ReadAction)>> /\ authz.err = NoError
    /\ \A r \in ResourcesGiven, id \in 0..MaxID :
          {ToPermissions(Mapping(Member, r, id)).ps[i] :
              i \in DOMAIN ToPermissions(Mapping(Member, r, id)).ps}
          \subseteq {ToPermissions(Mapping(Owner, r, id)).ps[i] :
              i \in DOMAIN ToPermissions(Mapping(Owner, r, id)).ps}

\* C25's case: ToPermissions of an Owner's mapping of a bucket has returned
\* two permissions; of a Member's, one; of a mapping without a user type,
\* ErrInvalidUserType; of an Owner's mapping with the zero resource ID, no
\* permission and an error.
C25_Witness ==
    /\ authz.op = "ToPermissions" /\ authz.userType = Owner
    /\ authz.resource = "buckets" /\ authz.id = 1
    /\ Len(authz.ps) = 2 /\ authz.err = NoError
    /\ Len(ToPermissions(Mapping(Member, "buckets", 1)).ps) = 1
    /\ ToPermissions(Mapping("", "buckets", 1)) = Perms(<<>>, ErrInvalidUserType)
    /\ ToPermissions(Mapping(Owner, "buckets", InvalidID)).ps = <<>>
    /\ ToPermissions(Mapping(Owner, "buckets", InvalidID)).err # NoError

\* ------------------------------------------------------------------ C26
\* C26: Permission.Valid returns no error exactly when the action is read
\* or write, the resource is a kind the service knows, and the ID is nil or
\* a valid ID; it returns an error for a missing action, a missing resource
\* and for an ID that is there and is the zero ID.
C26_PermissionValid ==
    authz.op = "Valid" =>
       /\ authz.err = NoError <=>
             /\ authz.action \in {"read", "write"}
             /\ authz.resource \in RecognizedKinds
             /\ (~authz.hasID \/ authz.id # 0)
       /\ authz.action = "" => authz.err # NoError
       /\ authz.resource = "" => authz.err # NoError
       /\ (authz.hasID /\ authz.id = 0) => authz.err # NoError

\* C26's case: Valid has refused the write permission on buckets at the
\* zero ID.
C26_Witness ==
    /\ authz.op = "Valid" /\ authz.action = WriteAction
    /\ authz.resource = "buckets" /\ authz.hasID /\ authz.id = InvalidID
    /\ authz.err # NoError

\* ------------------------------------------------------------------ C31
\* C31: Name of a kind with names reads the store of that kind alone: for
\* every valid ID it returns what it returns with the stores of all other
\* kinds emptied.  An entity another kind holds under the ID never makes
\* it succeed, and where two kinds hold entities under one ID, Name of
\* each returns the name in its own store while Name of a third kind
\* returns NotFound.
C31_Isolated ==
    \A kind \in NamedKinds \cup {"dashboards"}, id \in 1..MaxID \cup {ForeignID} :
       LET own == KindStore(dashboardKV, nameKV, kind)
           dashAlone == IF kind = "dashboards" THEN dashboardKV
                        ELSE [i \in {} |-> NotADashboard]
           namesAlone == [k \in NamedKinds |->
                             IF k = kind THEN nameKV[k] ELSE [i \in {} |-> ""]]
       IN  /\ Name(dashboardKV, nameKV, kind, id) = Name(dashAlone, namesAlone, kind, id)
           /\ id \notin DOMAIN own
                 => Name(dashboardKV, nameKV, kind, id) = Named("", ENotFound)
           /\ id \in DOMAIN own
                 => Name(dashboardKV, nameKV, kind, id) = Named(own[id], NoError)

\* C31's case: an organization named "a", a bucket named "b" and a
\* dashboard named "a" sit under one ID, and no user does; Name returns
\* "a" for the organization, "b" for the bucket, "a" for the dashboard and
\* NotFound for the user.
C31_Witness ==
    \E x \in MockIDs :
       /\ x \in DOMAIN nameKV["orgs"] /\ nameKV["orgs"][x] = "a"
       /\ x \in DOMAIN nameKV["buckets"] /\ nameKV["buckets"][x] = "b"
       /\ x \in DOMAIN dashboardKV /\ dashboardKV[x].name = "a"
       /\ x \notin DOMAIN nameKV["users"]
       /\ Name(dashboardKV, nameKV, "orgs", x) = Named("a", NoError)
       /\ Name(dashboardKV, nameKV, "buckets", x) = Named("b", NoError)
       /\ Name(dashboardKV, nameKV, "dashboards", x) = Named("a", NoError)
       /\ Name(dashboardKV, nameKV, "users", x) = Named("", ENotFound)

====
